---- MODULE Spec2Model ----
(***************************************************************************)
(* Scan orchestration of disktidy: ScanManager / ScanContext /             *)
(* ScanController (modules/scanner_framework.rs) driving the two scan      *)
(* closures that use it: the large-file scan                               *)
(* (modules/large_file_scanner.rs) and the junk-file scan                  *)
(* (modules/file_analyzer/junk_file_scan.rs).                              *)
(*                                                                         *)
(* Every step is one access to shared state (a map behind its RwLock, a    *)
(* watch channel, an atomic).  A tokio sleep is folded into the read that  *)
(* follows it.  The progress and result locks are only ever held for one   *)
(* access; the controllers read lock is held by pause_scan / resume_scan / *)
(* cancel_scan across their progress write, which is what `inflight`       *)
(* records.                                                                *)
(***************************************************************************)
EXTENDS Naturals, FiniteSets, Sequences, TLC

\* ---------------------------------------------------------------- bounds
\* directory entries (all regular files) the blocking walker visits
NumEntries == 2
\* enabled phases of the junk-file scan
NumPhases == 2
\* manager calls that may be between their first and their last await
MaxInflight == 1

\* ---------------------------------------------------------------- domain
ScanIds == {"s1", "s2"}
\* Option::None of get_progress / get_result, as a value of the same shape
NotFound == [status |-> "NotFound", scanned_files |-> 0]
NoResult == [present |-> FALSE, files |-> 0]
ScanStatus == {"Idle", "Scanning", "Paused", "Completed", "Error"}
Kinds == {"large", "junk"}
CtlOps == {"pause", "resume", "cancel"}

VARIABLES
    fresh,            \* scan ids generate_scan_id has not handed out yet
    progress_store,   \* ScanManager.progress_store: id -> P or NotFound
    result_store,     \* ScanManager.result_store:   id -> R or NotFound
    controllers,      \* ScanManager.controllers: ids with a ScanController
    pause_sender,     \* value of the pause watch channel of each scan
    cancel_sender,    \* value of the cancel watch channel of each scan
    kind,             \* which closure was passed to start_scan
    path_exists,      \* large-file scan: config.path exists
    startpc,          \* position of start_scan_with_id for each id
    tpc,              \* position of the spawned task for each id
    retval,           \* value the closure returned (Ok payload)
    phase_idx,        \* junk scan: index of the current phase
    wpc,              \* position of the spawn_blocking walker
    wleft,            \* walker: entries not yet visited
    scanned_count,    \* walker: AtomicU64 scanned_count
    is_paused,        \* AtomicBool shared by control loop and walker
    is_cancelled,     \* AtomicBool shared by control loop and walker
    inflight,         \* manager calls past their first await
    lastCtl,          \* history: last pause/resume/cancel that returned
    ticks,            \* history: task sleeps ended since pause returned (0..2)
    cancelObserved,   \* history: a checkpoint of the task returned Cancel
    outcome,          \* history: "ok" / "err" once the closure returned
    cleared,          \* history: a clear_scan(id) has returned
    advanced,         \* history: walker counted a file since resume returned
    disk,             \* DuplicateDetector: the files under the roots, in traversal order
    options,          \* DuplicateDetector.options
    dpc,              \* position of find_duplicates
    files,            \* find_duplicates_internal: files (result of scan_files)
    size_groups,      \* find_duplicates_internal: size_groups
    pending,          \* calculate_and_group_by_hash: size groups not yet iterated
    hash_groups,      \* calculate_and_group_by_hash: hash_groups
    groups,           \* find_duplicates: duplicate_groups
    result,           \* DuplicateAnalysisResult that find_duplicates returned
    hlog,             \* history: hash computations, one entry per batch
    sgroup,           \* suggest_files_to_delete: the files of the group passed in
    suggestion,       \* suggest_files_to_delete: the paths returned
    spc               \* position of suggest_files_to_delete

scanVars == << fresh, progress_store, result_store, controllers, pause_sender,
               cancel_sender, kind, path_exists, startpc, tpc, retval, phase_idx,
               wpc, wleft, scanned_count, is_paused, is_cancelled, inflight,
               lastCtl, ticks, cancelObserved, outcome, cleared, advanced >>

dupVars == << disk, options, dpc, files, size_groups, pending, hash_groups,
              groups, result, hlog >>

sugVars == << sgroup, suggestion, spc >>

VARIABLES
    hfiles,     \* the files HashCalculator is asked about: path -> data, mtime
    ctor,       \* the constructor call that made the HashCalculator
    cache,      \* HashCalculator.cache, most recently used entry first
    hpc,        \* calculate_file_hash: "idle" or "read" (inside the read loop)
    hcall,      \* the call in progress: path, modified_time, file_size
    hasher,     \* the chunks fed to the Sha256 hasher of the call
    hret        \* what the last call returned

hashVars == << hfiles, ctor, cache, hpc, hcall, hasher, hret >>

\* the variables of the helpers that run apart from a scan and a detection
VARIABLES
    cfiles,     \* quick_compare: the two files compared
    centry,     \* which quick_compare was called: the detector's or the calculator's
    cpc,        \* quick_compare: position
    clog,       \* the hashes computed by the call, in order
    cret        \* what the call returned

cmpVars == << cfiles, centry, cpc, clog, cret >>

VARIABLES
    tree,       \* the directory tree walked: link, attributes, what fails
    walker,     \* the FileWalker, its filter options and the scan that uses it
    wstack,     \* WalkDir iterator: the entries still to be yielded, next first
    yielded,    \* the items walk() has yielded so far
    reported,   \* the files the scan has reported so far
    wcount,     \* the files the scan has counted so far
    wresult     \* how the traversal of the scan ended: "none", "Ok" or "Err"

walkVars == << tree, walker, wstack, yielded, reported, wcount, wresult >>

VARIABLES
    kdisk,      \* the files to clean: path -> what clean_single meets there
    klist,      \* the list of paths given to the call
    kentry,     \* the call: CleanerExecutor::clean or delete_selected_files
    kpc,        \* position of the call
    kidx,       \* clean_with_progress: the paths of the list handled so far
    kctx,       \* CleanContext: cleaned_files, failed_files, errors
    kcancelled, \* CleanerExecutor.cancelled
    kstored,    \* the paths listed in SCAN_RESULTS and SCAN_FULL_CATEGORIES
    kdeleted    \* the paths whose file the call has deleted

cleanVars == << kdisk, klist, kentry, kpc, kidx, kctx, kcancelled, kstored, kdeleted >>

VARIABLES
    last_update,    \* ScanContext.last_update, the counter of update_progress
    uinterval,      \* the interval the task passes to update_progress
    upresent,       \* the progress store has an entry for the scan
    ulog,           \* update_progress calls so far: "update" or "skip"
    utouched        \* increment_counter was called

throttleVars == << last_update, uinterval, upresent, ulog, utouched >>

VARIABLES
    gentry,      \* which module runs the scan: "disk" (disk_scan) or "large" (large_file_scan)
    gpath,       \* large_file_scan: the path to scan exists
    gstatus,     \* SCAN_PROGRESS: the status stored for the scan id, or "NotFound"
    gresults,    \* SCAN_RESULTS has an entry for the scan id
    gfull,       \* disk_scan: SCAN_FULL_CATEGORIES has an entry for the scan id
    gcontroller, \* SCAN_CONTROLLERS has an entry for the scan id
    gcancel,     \* value of the cancel channel of the scan
    gpc,         \* position of the spawned task
    gleft,       \* entries the walker of the task has still to yield
    gclear,      \* position of clear_scan_result / clear_large_file_scan_result
    gseen,       \* history: a poll of the progress returned status Completed
    ggot         \* history: what the last poll of the result after that returned

legacyVars == << gentry, gpath, gstatus, gresults, gfull, gcontroller, gcancel,
                 gpc, gleft, gclear, gseen, ggot >>

VARIABLES
    rctl,       \* controllers: the start (1 or 2) whose controller is under the id, 0 for none
    rstartpc,   \* position of the second start_scan_with_id with the id
    rtpc,       \* position of the task each start spawned
    rpause,     \* value of the pause channel of each start's controller
    rcancel,    \* value of the cancel channel of each start's controller
    rstatus,    \* progress_store: the status stored under the id
    rresult,    \* result_store: the start whose result is under the id, 0 for none
    rleft       \* checkpoints each task has still to pass

restartVars == << rctl, rstartpc, rtpc, rpause, rcancel, rstatus, rresult, rleft >>

\* the variables of the later helpers
moreVars == << walkVars, cleanVars, throttleVars, legacyVars, restartVars >>

\* all variables but those of the traversal, of the cleaner, of the
\* throttle
notWalk == << scanVars, dupVars, sugVars, hashVars, cmpVars, cleanVars, throttleVars,
             legacyVars, restartVars >>
notClean == << scanVars, dupVars, sugVars, hashVars, cmpVars, walkVars, throttleVars,
              legacyVars, restartVars >>
notThrottle == << scanVars, dupVars, sugVars, hashVars, cmpVars, walkVars, cleanVars,
                 legacyVars, restartVars >>
notLegacy == << scanVars, dupVars, sugVars, hashVars, cmpVars, walkVars, cleanVars,
               throttleVars, restartVars >>
notRestart == << scanVars, dupVars, sugVars, hashVars, cmpVars, walkVars, cleanVars,
                throttleVars, legacyVars >>

utilVars == << sugVars, hashVars, cmpVars, moreVars >>

vars == << scanVars, dupVars, utilVars >>

taskVars == << retval, phase_idx, is_paused, is_cancelled >>
walkerVars == << wpc, wleft, scanned_count >>
histVars == << lastCtl, ticks, cancelObserved, outcome, cleared, advanced >>
startVars == << fresh, kind, path_exists, startpc >>
flagVars == << pause_sender, cancel_sender >>

\* ---------------------------------------------------------------- helpers
\* LargeFileScanProgress::new / JunkFileScanProgress::new
InitialProgress(k) ==
    [status |-> IF k = "large" THEN "Scanning" ELSE "Idle", scanned_files |-> 0]

\* variant of SetStatus that sets the status of every entry of the store
SetStatus_AllEntries(store, id, st) ==
    [i \in ScanIds |-> IF store[i] = NotFound THEN store[i]
                       ELSE [store[i] EXCEPT !.status = st]]

\* ScanProgress::set_status through store.get_mut(scan_id)
SetStatus(store, id, st) ==
    IF store[id] = NotFound THEN store
    ELSE [store EXCEPT ![id] = [@ EXCEPT !.status = st]]

\* ScanManager::get_progress / get_result
GetProgress(id) == progress_store[id]
GetResult(id) == result_store[id]

\* holders of the controllers read lock
CtlReaders == {r \in inflight : r.op \in CtlOps}

\* a controllers.write() is queued: tokio's RwLock is FIFO-fair, so no later
\* read() is granted before it
CtlWriterQueued ==
    \E id \in ScanIds : startpc[id] = "inserted_q" \/ tpc[id] = "t_cleanup_q"

Present(id) == progress_store[id] # NotFound
StatusOf(id) == progress_store[id].status

\* no DuplicateDetector run: the detector's variables stay as they are here
DetectorIdle ==
    /\ disk = << >>
    /\ options = [min_size |-> 0, max_size |-> [some |-> FALSE, v |-> 0]]
    /\ dpc = "idle"
    /\ files = << >>
    /\ size_groups = << >>
    /\ pending = {}
    /\ hash_groups = << >>
    /\ groups = << >>
    /\ result = [total_groups |-> 0, total_files |-> 0, total_size |-> 0, wasted_space |-> 0]
    /\ hlog = << >>

\* no suggest_files_to_delete call
SuggestIdle == sgroup = << >> /\ suggestion = << >> /\ spc = "idle"

\* HashCalculator::new, no file known and no call made
NoCall == [path |-> "none", modified_time |-> "none", file_size |-> 0]
NoReturn == [kind |-> "none", hash |-> << >>]
HashIdle ==
    /\ hfiles = << >> /\ ctor = [fn |-> "new", enabled |-> TRUE, max_size |-> 0]
    /\ cache = << >> /\ hpc = "idle" /\ hcall = NoCall /\ hasher = << >>
    /\ hret = NoReturn

\* no quick_compare call
CompareIdle ==
    cfiles = << >> /\ centry = "none" /\ cpc = "idle" /\ clog = << >> /\ cret = "none"

\* no traversal
WalkIdle ==
    /\ tree = << >> /\ walker = << >> /\ wstack = << >> /\ yielded = << >>
    /\ reported = << >> /\ wcount = 0 /\ wresult = "none"

\* no clean call
NoContext == [total_files |-> 0, cleaned_files |-> 0, failed_files |-> 0, errors |-> << >>]
CleanIdle ==
    /\ kdisk = << >> /\ klist = << >> /\ kentry = "none" /\ kpc = "idle" /\ kidx = 0
    /\ kctx = NoContext /\ kcancelled = FALSE
    /\ kstored = [result |-> {}, full |-> {}] /\ kdeleted = {}

\* ScanContext::new: the counter is 0 and update_progress was not called
ThrottleIdle ==
    /\ last_update = 0 /\ uinterval = 1 /\ upresent = FALSE /\ ulog = << >>
    /\ utouched = FALSE

\* no disk scan and no legacy large-file scan was started: the maps are
\* empty
LegacyIdle ==
    /\ gentry = "disk" /\ gpath = TRUE /\ gstatus = "NotFound"
    /\ gresults = FALSE /\ gfull = FALSE /\ gcontroller = FALSE
    /\ gcancel = FALSE /\ gpc = "none" /\ gleft = 0 /\ gclear = "idle"
    /\ gseen = FALSE /\ ggot = "none"

\* the two starts of one scan id
Starts == {1, 2}

\* start_scan_with_id was not called with the id
RestartIdle ==
    /\ rctl = 0 /\ rstartpc = "idle"
    /\ rtpc = [g \in Starts |-> "none"]
    /\ rpause = [g \in Starts |-> FALSE]
    /\ rcancel = [g \in Starts |-> FALSE]
    /\ rstatus = "NotFound" /\ rresult = 0
    /\ rleft = [g \in Starts |-> 0]

MoreIdle == WalkIdle /\ CleanIdle /\ ThrottleIdle /\ LegacyIdle /\ RestartIdle

\* none of the helpers is in use
UtilIdle == SuggestIdle /\ HashIdle /\ CompareIdle /\ MoreIdle

\* ScanManager::new: empty maps; one scan id can be started
ManagerInit ==
    /\ fresh = {"s1"}
    /\ progress_store = [id \in ScanIds |-> NotFound]
    /\ result_store = [id \in ScanIds |-> NoResult]
    /\ controllers = {}
    /\ pause_sender = [id \in ScanIds |-> FALSE]
    /\ cancel_sender = [id \in ScanIds |-> FALSE]
    /\ kind = [id \in ScanIds |-> "none"]
    /\ path_exists = [id \in ScanIds |-> TRUE]
    /\ startpc = [id \in ScanIds |-> "unused"]
    /\ tpc = [id \in ScanIds |-> "none"]
    /\ retval = [id \in ScanIds |-> 0]
    /\ phase_idx = [id \in ScanIds |-> 0]
    /\ wpc = [id \in ScanIds |-> "none"]
    /\ wleft = [id \in ScanIds |-> 0]
    /\ scanned_count = [id \in ScanIds |-> 0]
    /\ is_paused = [id \in ScanIds |-> FALSE]
    /\ is_cancelled = [id \in ScanIds |-> FALSE]
    /\ inflight = {}
    /\ lastCtl = [id \in ScanIds |-> "none"]
    /\ ticks = [id \in ScanIds |-> 0]
    /\ cancelObserved = [id \in ScanIds |-> FALSE]
    /\ outcome = [id \in ScanIds |-> "none"]
    /\ cleared = [id \in ScanIds |-> FALSE]
    /\ advanced = [id \in ScanIds |-> FALSE]

Init == ManagerInit /\ DetectorIdle /\ UtilIdle

\* ------------------------------------------------- ScanManager operations
\* start_scan_with_id, first await: progress_store.write().insert(id, initial)
StartScanInsert(id, k, pe) ==
    /\ id \in fresh
    /\ fresh' = fresh \ {id}
    /\ kind' = [kind EXCEPT ![id] = k]
    /\ path_exists' = [path_exists EXCEPT ![id] = pe]
    /\ progress_store' = [progress_store EXCEPT ![id] = InitialProgress(k)]
    /\ startpc' = [startpc EXCEPT ![id] = "inserted"]
    /\ UNCHANGED << result_store, controllers, flagVars, tpc, taskVars,
                    walkerVars, inflight, histVars >>
    /\ UNCHANGED << dupVars, utilVars >>

\* start_scan_with_id spawning the task without having registered the
\* controller
StartScanSpawn_NoController(id) ==
    /\ startpc[id] \in {"inserted", "inserted_q"}
    /\ CtlReaders = {}
    /\ pause_sender' = [pause_sender EXCEPT ![id] = FALSE]
    /\ cancel_sender' = [cancel_sender EXCEPT ![id] = FALSE]
    /\ tpc' = [tpc EXCEPT ![id] = IF kind[id] = "large" THEN "lf_init" ELSE "jk_cancel"]
    /\ startpc' = [startpc EXCEPT ![id] = "returned"]
    /\ UNCHANGED << fresh, kind, path_exists, progress_store, result_store,
                    controllers, taskVars, walkerVars, inflight, histVars >>
    /\ UNCHANGED << dupVars, utilVars >>

\* start_scan_with_id, second await: ScanController::new, controllers
\* .write().insert(id, controller), tokio::spawn, return Ok(scan_id)
StartScanSpawn(id) ==
    /\ startpc[id] \in {"inserted", "inserted_q"}
    /\ CtlReaders = {}
    /\ controllers' = controllers \cup {id}
    /\ pause_sender' = [pause_sender EXCEPT ![id] = FALSE]
    /\ cancel_sender' = [cancel_sender EXCEPT ![id] = FALSE]
    /\ tpc' = [tpc EXCEPT ![id] = IF kind[id] = "large" THEN "lf_init" ELSE "jk_cancel"]
    /\ startpc' = [startpc EXCEPT ![id] = "returned"]
    /\ UNCHANGED << fresh, kind, path_exists, progress_store, result_store,
                    taskVars, walkerVars, inflight, histVars >>
    /\ UNCHANGED << dupVars, utilVars >>

\* start_scan_with_id: controllers.write() finds the lock read-held and
\* queues
StartScanQueue(id) ==
    /\ startpc[id] = "inserted"
    /\ CtlReaders # {}
    /\ startpc' = [startpc EXCEPT ![id] = "inserted_q"]
    /\ UNCHANGED << fresh, kind, path_exists, progress_store, result_store,
                    controllers, flagVars, tpc, taskVars, walkerVars,
                    inflight, histVars >>
    /\ UNCHANGED << dupVars, utilVars >>

\* the caller holds id: start_scan returned it, or it is an id no scan has
KnownToCaller(id) == startpc[id] = "returned" \/ (startpc[id] = "unused" /\ id \notin fresh)

\* variant of CtlSend whose resume also sends false on the cancel channel
CtlSend_ResumeResetsCancel(op, id) ==
    /\ KnownToCaller(id)
    /\ ~CtlWriterQueued
    /\ Cardinality(inflight) < MaxInflight
    /\ [op |-> op, id |-> id] \notin inflight
    /\ inflight' = inflight \cup {[op |-> op, id |-> id]}
    /\ pause_sender' = IF id \in controllers /\ op \in {"pause", "resume"}
                       THEN [pause_sender EXCEPT ![id] = (op = "pause")]
                       ELSE pause_sender
    /\ cancel_sender' = IF id \in controllers /\ op \in {"cancel", "resume"}
                        THEN [cancel_sender EXCEPT ![id] = (op = "cancel")]
                        ELSE cancel_sender
    /\ UNCHANGED << startVars, progress_store, result_store, controllers, tpc,
                    taskVars, walkerVars, histVars >>
    /\ UNCHANGED << dupVars, utilVars >>

\* pause_scan / resume_scan / cancel_scan up to the progress_store.write()
\* await: controllers.read(), then ScanController::pause / resume / cancel
CtlSend(op, id) ==
    /\ KnownToCaller(id)
    /\ ~CtlWriterQueued
    /\ Cardinality(inflight) < MaxInflight
    /\ [op |-> op, id |-> id] \notin inflight
    /\ inflight' = inflight \cup {[op |-> op, id |-> id]}
    /\ pause_sender' = IF id \in controllers /\ op \in {"pause", "resume"}
                       THEN [pause_sender EXCEPT ![id] = (op = "pause")]
                       ELSE pause_sender
    /\ cancel_sender' = IF id \in controllers /\ op = "cancel"
                        THEN [cancel_sender EXCEPT ![id] = TRUE]
                        ELSE cancel_sender
    /\ UNCHANGED << startVars, progress_store, result_store, controllers, tpc,
                    taskVars, walkerVars, histVars >>
    /\ UNCHANGED << dupVars, utilVars >>

\* status pause_scan / resume_scan / cancel_scan store
CtlStatusValue(op) ==
    CASE op = "pause" -> "Paused"
      [] op = "resume" -> "Scanning"
      [] op = "cancel" -> "Idle"

\* variant of CtlStatus that takes the controllers read lock a second time
\* before it stores the status, and so queues behind a waiting writer
CtlStatus_Reread(r) ==
    /\ r \in CtlReaders
    /\ ~CtlWriterQueued
    /\ progress_store' = SetStatus(progress_store, r.id, CtlStatusValue(r.op))
    /\ inflight' = inflight \ {r}
    /\ IF startpc[r.id] = "returned"
       THEN /\ lastCtl' = [lastCtl EXCEPT ![r.id] = r.op]
            /\ ticks' = [ticks EXCEPT ![r.id] = 0]
            /\ advanced' = IF r.op = "resume"
                           THEN [advanced EXCEPT ![r.id] = FALSE]
                           ELSE advanced
       ELSE UNCHANGED << lastCtl, ticks, advanced >>
    /\ UNCHANGED << startVars, result_store, controllers, flagVars, tpc,
                    taskVars, walkerVars, cancelObserved, outcome, cleared >>
    /\ UNCHANGED << dupVars, utilVars >>

\* pause_scan / resume_scan / cancel_scan from the progress_store.write()
\* await to the return, which drops the controllers read guard
CtlStatus(r) ==
    /\ r \in CtlReaders
    /\ progress_store' = SetStatus(progress_store, r.id, CtlStatusValue(r.op))
    /\ inflight' = inflight \ {r}
    /\ IF startpc[r.id] = "returned"
       THEN /\ lastCtl' = [lastCtl EXCEPT ![r.id] = r.op]
            /\ ticks' = [ticks EXCEPT ![r.id] = 0]
            /\ advanced' = IF r.op = "resume"
                           THEN [advanced EXCEPT ![r.id] = FALSE]
                           ELSE advanced
       ELSE UNCHANGED << lastCtl, ticks, advanced >>
    /\ UNCHANGED << startVars, result_store, controllers, flagVars, tpc,
                    taskVars, walkerVars, cancelObserved, outcome, cleared >>
    /\ UNCHANGED << dupVars, utilVars >>

\* clear_scan, first await: progress_store.write().remove(id)
ClearProgress(id) ==
    /\ startpc[id] = "returned"
    /\ Cardinality(inflight) < MaxInflight
    /\ [op |-> "clear", id |-> id] \notin inflight
    /\ progress_store' = [progress_store EXCEPT ![id] = NotFound]
    /\ inflight' = inflight \cup {[op |-> "clear", id |-> id]}
    /\ UNCHANGED << startVars, result_store, controllers, flagVars, tpc,
                    taskVars, walkerVars, histVars >>
    /\ UNCHANGED << dupVars, utilVars >>

\* clear_scan, second await: result_store.write().remove(id), return
ClearResult(r) ==
    /\ r \in inflight
    /\ r.op = "clear"
    /\ result_store' = [result_store EXCEPT ![r.id] = NoResult]
    /\ inflight' = inflight \ {r}
    /\ cleared' = [cleared EXCEPT ![r.id] = TRUE]
    /\ UNCHANGED << startVars, progress_store, controllers, flagVars, tpc,
                    taskVars, walkerVars, lastCtl, ticks, cancelObserved,
                    outcome, advanced >>
    /\ UNCHANGED << dupVars, utilVars >>

\* ------------------------------------------------------ the spawned task
\* history: one more 100 ms sleep of the task has ended; the second one to
\* end after pause_scan returned began after it returned
Tick(id) ==
    ticks' = IF lastCtl[id] = "pause" /\ ticks[id] < 2
             THEN [ticks EXCEPT ![id] = @ + 1] ELSE ticks

\* large_file_scanner::perform_scan up to the control loop: the path check
\* (Err when it does not exist) and tokio::task::spawn_blocking of the walker
LfInit(id) ==
    /\ tpc[id] = "lf_init"
    /\ IF path_exists[id]
       THEN /\ tpc' = [tpc EXCEPT ![id] = "cc_cancel"]
            /\ wpc' = [wpc EXCEPT ![id] = "entry"]
            /\ wleft' = [wleft EXCEPT ![id] = NumEntries]
            /\ UNCHANGED outcome
       ELSE /\ tpc' = [tpc EXCEPT ![id] = "t_err"]
            /\ outcome' = [outcome EXCEPT ![id] = "err"]
            /\ UNCHANGED << wpc, wleft >>
    /\ UNCHANGED << startVars, progress_store, result_store, controllers,
                    flagVars, taskVars, scanned_count, inflight, lastCtl,
                    ticks, cancelObserved, cleared, advanced >>
    /\ UNCHANGED << dupVars, utilVars >>

\* perform_scan's ControlAction::Cancel arm, up to handle.await
LfCancelArm(id) ==
    /\ tpc' = [tpc EXCEPT ![id] = "lf_join"]
    /\ is_cancelled' = [is_cancelled EXCEPT ![id] = TRUE]
    /\ cancelObserved' = [cancelObserved EXCEPT ![id] = TRUE]

\* the loop's sleep(100 ms), then check_control's first read of the cancel
\* channel
CheckControlCancel(id) ==
    /\ tpc[id] = "cc_cancel"
    /\ Tick(id)
    /\ IF cancel_sender[id]
       THEN LfCancelArm(id)
       ELSE /\ tpc' = [tpc EXCEPT ![id] = "cc_while"]
            /\ UNCHANGED << is_cancelled, cancelObserved >>
    /\ UNCHANGED << startVars, progress_store, result_store, controllers,
                    flagVars, retval, phase_idx, is_paused, walkerVars,
                    inflight, lastCtl, outcome, cleared, advanced >>
    /\ UNCHANGED << dupVars, utilVars >>

\* check_control: the test of `while *self.pause_receiver.borrow()`;
\* false returns ControlAction::Continue
CheckControlWhile(id) ==
    /\ tpc[id] = "cc_while"
    /\ tpc' = [tpc EXCEPT ![id] = IF pause_sender[id] THEN "cc_store" ELSE "lf_read"]
    /\ UNCHANGED << startVars, progress_store, result_store, controllers,
                    flagVars, taskVars, walkerVars, inflight, histVars >>
    /\ UNCHANGED << dupVars, utilVars >>

\* check_control: the loop body's progress_store.write(), set_status(Paused)
CheckControlStore(id) ==
    /\ tpc[id] = "cc_store"
    /\ progress_store' = SetStatus(progress_store, id, "Paused")
    /\ tpc' = [tpc EXCEPT ![id] = "cc_recheck"]
    /\ UNCHANGED << startVars, result_store, controllers, flagVars, taskVars,
                    walkerVars, inflight, histVars >>
    /\ UNCHANGED << dupVars, utilVars >>

\* check_control whose pause loop sleeps without looking at the cancel
\* channel
CheckControlRecheck_NoCancel(id) ==
    /\ tpc[id] = "cc_recheck"
    /\ Tick(id)
    /\ tpc' = [tpc EXCEPT ![id] = "cc_while"]
    /\ UNCHANGED << startVars, progress_store, result_store, controllers,
                    flagVars, taskVars, walkerVars, inflight, lastCtl,
                    cancelObserved, outcome, cleared, advanced >>
    /\ UNCHANGED << dupVars, utilVars >>

\* check_control: the loop body's sleep(100 ms) and second read of the
\* cancel channel
CheckControlRecheck(id) ==
    /\ tpc[id] = "cc_recheck"
    /\ Tick(id)
    /\ IF cancel_sender[id]
       THEN LfCancelArm(id)
       ELSE /\ tpc' = [tpc EXCEPT ![id] = "cc_while"]
            /\ UNCHANGED << is_cancelled, cancelObserved >>
    /\ UNCHANGED << startVars, progress_store, result_store, controllers,
                    flagVars, retval, phase_idx, is_paused, walkerVars,
                    inflight, lastCtl, outcome, cleared, advanced >>
    /\ UNCHANGED << dupVars, utilVars >>

\* perform_scan after ControlAction::Continue: read the stored status and
\* is_paused.store(status == Paused)
LfRead(id) ==
    /\ tpc[id] = "lf_read"
    /\ is_paused' = [is_paused EXCEPT ![id] = (StatusOf(id) = "Paused")]
    /\ tpc' = [tpc EXCEPT ![id] = "lf_fin"]
    /\ UNCHANGED << startVars, progress_store, result_store, controllers,
                    flagVars, retval, phase_idx, is_cancelled, walkerVars,
                    inflight, histVars >>
    /\ UNCHANGED << dupVars, utilVars >>

\* perform_scan: `if handle.is_finished() { break }`, then the result is
\* built from large_files and returned as Ok
LfFinished(id) ==
    /\ tpc[id] = "lf_fin"
    /\ IF wpc[id] = "finished"
       THEN /\ tpc' = [tpc EXCEPT ![id] = "t_ok"]
            /\ retval' = [retval EXCEPT ![id] = scanned_count[id]]
            /\ outcome' = [outcome EXCEPT ![id] = "ok"]
       ELSE /\ tpc' = [tpc EXCEPT ![id] = "cc_cancel"]
            /\ UNCHANGED << retval, outcome >>
    /\ UNCHANGED << startVars, progress_store, result_store, controllers,
                    flagVars, phase_idx, is_paused, is_cancelled, walkerVars,
                    inflight, lastCtl, ticks, cancelObserved, cleared,
                    advanced >>
    /\ UNCHANGED << dupVars, utilVars >>

\* perform_scan's Cancel arm: handle.await.ok(); return Err("Scan cancelled")
LfJoin(id) ==
    /\ tpc[id] = "lf_join"
    /\ wpc[id] = "finished"
    /\ tpc' = [tpc EXCEPT ![id] = "t_err"]
    /\ outcome' = [outcome EXCEPT ![id] = "err"]
    /\ UNCHANGED << startVars, progress_store, result_store, controllers,
                    flagVars, taskVars, walkerVars, inflight, lastCtl, ticks,
                    cancelObserved, cleared, advanced >>
    /\ UNCHANGED << dupVars, utilVars >>

\* junk_file_scan::perform_scan leaves its phase loop (`break` on Cancel, or
\* after the last phase) and returns Ok(results)
JkReturn(id) ==
    /\ tpc' = [tpc EXCEPT ![id] = "t_ok"]
    /\ outcome' = [outcome EXCEPT ![id] = "ok"]

\* check_control_with_store: first read of the cancel channel, at the top
\* of each phase
JkCancel(id) ==
    /\ tpc[id] = "jk_cancel"
    /\ IF cancel_sender[id]
       THEN /\ JkReturn(id)
            /\ cancelObserved' = [cancelObserved EXCEPT ![id] = TRUE]
       ELSE /\ tpc' = [tpc EXCEPT ![id] = "jk_while"]
            /\ UNCHANGED << outcome, cancelObserved >>
    /\ UNCHANGED << startVars, progress_store, result_store, controllers,
                    flagVars, taskVars, walkerVars, inflight, lastCtl, ticks,
                    cleared, advanced >>
    /\ UNCHANGED << dupVars, utilVars >>

\* check_control_with_store: the test of `while *ctx.pause_receiver.borrow()`
JkWhile(id) ==
    /\ tpc[id] = "jk_while"
    /\ tpc' = [tpc EXCEPT ![id] = IF pause_sender[id] THEN "jk_recheck" ELSE "jk_scan"]
    /\ UNCHANGED << startVars, progress_store, result_store, controllers,
                    flagVars, taskVars, walkerVars, inflight, histVars >>
    /\ UNCHANGED << dupVars, utilVars >>

\* check_control_with_store: sleep(100 ms) and second read of the cancel
\* channel
JkRecheck(id) ==
    /\ tpc[id] = "jk_recheck"
    /\ Tick(id)
    /\ IF cancel_sender[id]
       THEN /\ JkReturn(id)
            /\ cancelObserved' = [cancelObserved EXCEPT ![id] = TRUE]
       ELSE /\ tpc' = [tpc EXCEPT ![id] = "jk_while"]
            /\ UNCHANGED << outcome, cancelObserved >>
    /\ UNCHANGED << startVars, progress_store, result_store, controllers,
                    flagVars, taskVars, walkerVars, inflight, lastCtl,
                    cleared, advanced >>
    /\ UNCHANGED << dupVars, utilVars >>

\* scanner.scan_phase(phase, ctx): Some(result) is pushed to results, None
\* is not; after the last phase the loop ends and perform_scan returns
JkScanPhase(id, found) ==
    /\ tpc[id] = "jk_scan"
    /\ retval' = [retval EXCEPT ![id] = IF found THEN @ + 1 ELSE @]
    /\ phase_idx' = [phase_idx EXCEPT ![id] = @ + 1]
    /\ IF phase_idx[id] + 1 = NumPhases
       THEN JkReturn(id)
       ELSE /\ tpc' = [tpc EXCEPT ![id] = "jk_cancel"]
            /\ UNCHANGED outcome
    /\ UNCHANGED << startVars, progress_store, result_store, controllers,
                    flagVars, is_paused, is_cancelled, walkerVars, inflight,
                    lastCtl, ticks, cancelObserved, cleared, advanced >>
    /\ UNCHANGED << dupVars, utilVars >>

\* the spawned task of start_scan_with_id, Ok arm:
\* result_store.write().insert(scan_id, result)
TaskOk(id) ==
    /\ tpc[id] = "t_ok"
    /\ result_store' = [result_store EXCEPT ![id] = [present |-> TRUE, files |-> retval[id]]]
    /\ tpc' = [tpc EXCEPT ![id] = "t_cleanup"]
    /\ UNCHANGED << startVars, progress_store, controllers, flagVars,
                    taskVars, walkerVars, inflight, histVars >>
    /\ UNCHANGED << dupVars, utilVars >>

\* variant of TaskErr whose Err arm also stores a result
TaskErr_StoresResult(id) ==
    /\ tpc[id] = "t_err"
    /\ progress_store' = SetStatus(progress_store, id, "Error")
    /\ result_store' = [result_store EXCEPT ![id] = [present |-> TRUE, files |-> 0]]
    /\ tpc' = [tpc EXCEPT ![id] = "t_cleanup"]
    /\ UNCHANGED << startVars, controllers, flagVars, taskVars,
                    walkerVars, inflight, histVars >>
    /\ UNCHANGED << dupVars, utilVars >>

\* the spawned task of start_scan_with_id, Err arm:
\* progress_store.write(), set_status(Error)
TaskErr(id) ==
    /\ tpc[id] = "t_err"
    /\ progress_store' = SetStatus(progress_store, id, "Error")
    /\ tpc' = [tpc EXCEPT ![id] = "t_cleanup"]
    /\ UNCHANGED << startVars, result_store, controllers, flagVars, taskVars,
                    walkerVars, inflight, histVars >>
    /\ UNCHANGED << dupVars, utilVars >>

\* the spawned task of start_scan_with_id: controllers.write() finds the
\* lock read-held and queues
TaskCleanupQueue(id) ==
    /\ tpc[id] = "t_cleanup"
    /\ CtlReaders # {}
    /\ tpc' = [tpc EXCEPT ![id] = "t_cleanup_q"]
    /\ UNCHANGED << startVars, progress_store, result_store, controllers,
                    flagVars, taskVars, walkerVars, inflight, histVars >>
    /\ UNCHANGED << dupVars, utilVars >>

\* variant of TaskCleanup that ends the task and leaves its controller behind
TaskCleanup_KeepsController(id) ==
    /\ tpc[id] \in {"t_cleanup", "t_cleanup_q"}
    /\ CtlReaders = {}
    /\ tpc' = [tpc EXCEPT ![id] = "done"]
    /\ UNCHANGED << startVars, progress_store, result_store, controllers,
                    flagVars, taskVars, walkerVars, inflight, histVars >>
    /\ UNCHANGED << dupVars, utilVars >>

\* the spawned task of start_scan_with_id: controllers.write().remove(id)
TaskCleanup(id) ==
    /\ tpc[id] \in {"t_cleanup", "t_cleanup_q"}
    /\ CtlReaders = {}
    /\ controllers' = controllers \ {id}
    /\ tpc' = [tpc EXCEPT ![id] = "done"]
    /\ UNCHANGED << startVars, progress_store, result_store, flagVars,
                    taskVars, walkerVars, inflight, histVars >>
    /\ UNCHANGED << dupVars, utilVars >>

\* ------------------------------------------- the spawn_blocking walker
\* walker closure returns for the current entry; after the last entry
\* for_each ends and the blocking task finishes
WalkerNextEntry(id) ==
    /\ wleft' = [wleft EXCEPT ![id] = @ - 1]
    /\ wpc' = [wpc EXCEPT ![id] = IF wleft[id] = 1 THEN "finished" ELSE "entry"]

\* walker closure body after the pause loop: scanned_count.fetch_add(1) and,
\* when 200 ms have passed since the last update (upd) and try_write
\* succeeds, the copy of the counters into the progress entry
WalkerProcess(id, upd) ==
    /\ scanned_count' = [scanned_count EXCEPT ![id] = @ + 1]
    /\ progress_store' =
          IF upd /\ Present(id)
          THEN [progress_store EXCEPT ![id] =
                   [@ EXCEPT !.scanned_files = scanned_count[id] + 1]]
          ELSE progress_store
    /\ advanced' = [advanced EXCEPT ![id] = TRUE]
    /\ WalkerNextEntry(id)

\* walker closure entered for the next entry: is_cancelled, then the test
\* of `while is_paused`
WalkerEntry(id, upd) ==
    /\ wpc[id] = "entry"
    /\ IF is_cancelled[id]
       THEN /\ WalkerNextEntry(id)
            /\ UNCHANGED << scanned_count, progress_store, advanced >>
       ELSE IF is_paused[id]
       THEN /\ wpc' = [wpc EXCEPT ![id] = "wait"]
            /\ UNCHANGED << wleft, scanned_count, progress_store, advanced >>
       ELSE WalkerProcess(id, upd)
    /\ UNCHANGED << startVars, result_store, controllers, flagVars, tpc,
                    taskVars, inflight, lastCtl, ticks, cancelObserved,
                    outcome, cleared >>
    /\ UNCHANGED << dupVars, utilVars >>

\* walker closure inside `while is_paused`: thread::sleep(100 ms),
\* is_cancelled, then the loop test again
WalkerWait(id, upd) ==
    /\ wpc[id] = "wait"
    /\ IF is_cancelled[id]
       THEN /\ WalkerNextEntry(id)
            /\ UNCHANGED << scanned_count, progress_store, advanced >>
       ELSE IF is_paused[id]
       THEN UNCHANGED << wpc, wleft, scanned_count, progress_store, advanced >>
       ELSE WalkerProcess(id, upd)
    /\ UNCHANGED << startVars, result_store, controllers, flagVars, tpc,
                    taskVars, inflight, lastCtl, ticks, cancelObserved,
                    outcome, cleared >>
    /\ UNCHANGED << dupVars, utilVars >>

\* ------------------------------------------------------- specification
Task(id) ==
    \/ LfInit(id)
    \/ CheckControlCancel(id)
    \/ CheckControlWhile(id)
    \/ CheckControlStore(id)
    \/ CheckControlRecheck(id)
    \/ LfRead(id)
    \/ LfFinished(id)
    \/ LfJoin(id)
    \/ JkCancel(id)
    \/ JkWhile(id)
    \/ JkRecheck(id)
    \/ \E found \in BOOLEAN : JkScanPhase(id, found)
    \/ TaskOk(id)
    \/ TaskErr(id)
    \/ TaskCleanupQueue(id)
    \/ TaskCleanup(id)

Walker(id) ==
    \/ \E upd \in BOOLEAN : WalkerEntry(id, upd)
    \/ \E upd \in BOOLEAN : WalkerWait(id, upd)

Next ==
    \/ \E id \in ScanIds, k \in Kinds, pe \in BOOLEAN : StartScanInsert(id, k, pe)
    \/ \E id \in ScanIds : StartScanQueue(id)
    \/ \E id \in ScanIds : StartScanSpawn(id)
    \/ \E op \in CtlOps, id \in ScanIds : CtlSend(op, id)
    \/ \E r \in inflight : CtlStatus(r)
    \/ \E id \in ScanIds : ClearProgress(id)
    \/ \E r \in inflight : ClearResult(r)
    \/ \E id \in ScanIds : Task(id)
    \/ \E id \in ScanIds : Walker(id)

Spec == Init /\ [][Next]_vars

\* the calls on the manager that can be in flight
Calls == [op : CtlOps \cup {"clear"}, id : ScanIds]

\* tokio runs every spawned task and every blocking thread, and every
\* manager call that has started runs to its return
FairSpec ==
    /\ Spec
    /\ \A id \in ScanIds : WF_vars(Task(id)) /\ WF_vars(Walker(id))
    /\ \A id \in ScanIds : WF_vars(StartScanQueue(id) \/ StartScanSpawn(id))
    /\ \A r \in Calls : WF_vars(IF r.op = "clear" THEN ClearResult(r) ELSE CtlStatus(r))

\* ------------------------------------------------ two scans side by side
\* every step that belongs to scan id: the manager calls on it and the steps
\* of its task and walker
StepsOf(id) ==
    \/ \E k \in Kinds, pe \in BOOLEAN : StartScanInsert(id, k, pe)
    \/ StartScanSpawn(id)
    \/ \E op \in CtlOps : CtlSend(op, id)
    \/ \E op \in CtlOps : CtlStatus([op |-> op, id |-> id])
    \/ ClearProgress(id)
    \/ ClearResult([op |-> "clear", id |-> id])
    \/ Task(id)
    \/ Walker(id)

\* a large-file scan that pause_scan has paused: its control loop is in the
\* pause loop of check_control and its walker has counted one file
PausedLargeScan ==
    [progress |-> [status |-> "Paused", scanned_files |-> 1], result |-> NoResult,
     controller |-> TRUE, pause |-> TRUE, kind |-> "large", tpc |-> "cc_while",
     retval |-> 0, phase_idx |-> 0, wpc |-> "entry", wleft |-> NumEntries - 1,
     scanned_count |-> 1, lastCtl |-> "pause", ticks |-> 1, outcome |-> "none",
     advanced |-> TRUE]

\* a junk-file scan that has run to its end after a resume_scan and has
\* stored its result
CompletedJunkScan ==
    [progress |-> [status |-> "Scanning", scanned_files |-> 0],
     result |-> [present |-> TRUE, files |-> 1],
     controller |-> FALSE, pause |-> FALSE, kind |-> "junk", tpc |-> "done",
     retval |-> 1, phase_idx |-> NumPhases, wpc |-> "none", wleft |-> 0,
     scanned_count |-> 0, lastCtl |-> "resume", ticks |-> 0, outcome |-> "ok",
     advanced |-> FALSE]

\* scan id is in the state the record b describes
ScanIsIn(id, b) ==
    /\ progress_store[id] = b.progress /\ result_store[id] = b.result
    /\ (id \in controllers) = b.controller
    /\ pause_sender[id] = b.pause /\ ~cancel_sender[id]
    /\ kind[id] = b.kind /\ path_exists[id] /\ startpc[id] = "returned"
    /\ tpc[id] = b.tpc /\ retval[id] = b.retval /\ phase_idx[id] = b.phase_idx
    /\ wpc[id] = b.wpc /\ wleft[id] = b.wleft /\ scanned_count[id] = b.scanned_count
    /\ ~is_paused[id] /\ ~is_cancelled[id]
    /\ lastCtl[id] = b.lastCtl /\ ticks[id] = b.ticks /\ ~cancelObserved[id]
    /\ outcome[id] = b.outcome /\ ~cleared[id] /\ advanced[id] = b.advanced

\* scan s1 has not been started; scan s2 was started before and is paused
\* or completed, and no manager call is in flight
InitTwo ==
    \E b \in {PausedLargeScan, CompletedJunkScan} :
        LET Of(other, first) == [id \in ScanIds |-> IF id = "s2" THEN other ELSE first] IN
        /\ DetectorIdle /\ UtilIdle
        /\ fresh = {"s1"}
        /\ progress_store = Of(b.progress, NotFound)
        /\ result_store = Of(b.result, NoResult)
        /\ controllers = IF b.controller THEN {"s2"} ELSE {}
        /\ pause_sender = Of(b.pause, FALSE)
        /\ cancel_sender = Of(FALSE, FALSE)
        /\ kind = Of(b.kind, "none")
        /\ path_exists = Of(TRUE, TRUE)
        /\ startpc = Of("returned", "unused")
        /\ tpc = Of(b.tpc, "none")
        /\ retval = Of(b.retval, 0)
        /\ phase_idx = Of(b.phase_idx, 0)
        /\ wpc = Of(b.wpc, "none")
        /\ wleft = Of(b.wleft, 0)
        /\ scanned_count = Of(b.scanned_count, 0)
        /\ is_paused = Of(FALSE, FALSE)
        /\ is_cancelled = Of(FALSE, FALSE)
        /\ inflight = {}
        /\ lastCtl = Of(b.lastCtl, "none")
        /\ ticks = Of(b.ticks, 0)
        /\ cancelObserved = Of(FALSE, FALSE)
        /\ outcome = Of(b.outcome, "none")
        /\ cleared = Of(FALSE, FALSE)
        /\ advanced = Of(b.advanced, FALSE)

\* scan s1 is started and run next to scan s2
NextTwo == StepsOf("s1")

SpecTwo == InitTwo /\ [][NextTwo]_vars

TypeOK ==
    /\ fresh \subseteq ScanIds
    /\ controllers \subseteq ScanIds
    /\ \A id \in ScanIds :
          /\ progress_store[id] = NotFound
                \/ /\ progress_store[id].status \in ScanStatus
                   /\ progress_store[id].scanned_files \in 0..NumEntries
          /\ result_store[id] = NoResult
                \/ /\ result_store[id].present
                   /\ result_store[id].files \in 0..(NumEntries + NumPhases)
          /\ scanned_count[id] \in 0..NumEntries
          /\ wleft[id] \in 0..NumEntries
          /\ phase_idx[id] \in 0..NumPhases
    /\ Cardinality(inflight) <= MaxInflight

\* ------------------------------------------------- DuplicateDetector
\* files under the roots of one find_duplicates call
MaxFiles == 3

\* SystemPaths::get_protected_paths (one of the nine)
ProtectedPaths == {"C:/Program Files"}

\* directory prefixes of the paths WalkDir yields: an ordinary directory, a
\* protected directory spelled as in the list, and the same protected
\* directory as a root the caller spelled in lower case
Dirs == {"D:/data", "C:/Program Files", "c:/program files"}

\* file contents: the first 64 KiB and the rest
Contents == {[head |-> "a", tail |-> "x"], [head |-> "a", tail |-> "y"],
             [head |-> "b", tail |-> "x"]}

\* what fails for a file: nothing, fs::metadata, File::open, a read after
\* the first 64 KiB (I/O error or hash timeout), or fs::metadata once the
\* file was hashed (the file is removed while the run goes on)
Failures == {"none", "metadata", "open", "read", "gone"}

\* DuplicateDetectorOptions: min_size and max_size (Option<u64>)
NoMax == [some |-> FALSE, v |-> 0]
OptionChoices ==
    {[min_size |-> 1, max_size |-> NoMax], [min_size |-> 2, max_size |-> NoMax],
     [min_size |-> 1, max_size |-> [some |-> TRUE, v |-> 1]]}

\* the files on disk, by position in the traversal
Paths == 1..Len(disk)

\* Path::starts_with: component-wise comparison of the path as spelled
StartsWith(f, protected) == f.dir = protected

MetadataOk(f) == f.fail # "metadata"
PartialOk(f) == f.fail # "open"
FullOk(f) == f.fail \notin {"open", "read"}

\* create_duplicate_groups: the modified time read for a DuplicateFile,
\* which is 0 when fs::metadata fails
modified_time(f) == IF f.fail = "gone" THEN 0 ELSE f.mtime

\* HashCalculator::calculate_partial_hash: SHA-256 of the first 64 KiB
PartialHash(f) == f.content.head

\* variant of FullHash that hashes the first 64 KiB only
FullHash_FirstBlock(f) == << f.size, f.content.head, "x" >>

\* HashCalculator::calculate_file_hash: SHA-256 of the whole content, which
\* has the file's length
FullHash(f) == << f.size, f.content.head, f.content.tail >>

\* DuplicateDetector::should_skip
should_skip(f) ==
    IF \E protected \in ProtectedPaths : StartsWith(f, protected) THEN TRUE
    ELSE IF MetadataOk(f)
         THEN \/ f.size < options.min_size
              \/ options.max_size.some /\ f.size > options.max_size.v
         ELSE FALSE

\* DuplicateDetector::scan_files: the walked files should_skip lets through
scan_files ==
    LET Keep(p) == ~should_skip(disk[p])
    IN  SelectSeq([i \in Paths |-> i], Keep)

\* variant of group_by_size that keeps only the buckets of more than two files
group_by_size_OverTwo(fl) ==
    LET Sized(p) == MetadataOk(disk[p]) /\ disk[p].size >= options.min_size
        sized == SelectSeq(fl, Sized)
        Bucket(sz) == LET Has(p) == disk[p].size = sz IN SelectSeq(sized, Has)
        sizes == {disk[sized[i]].size : i \in 1..Len(sized)}
    IN  [sz \in {z \in sizes : Len(Bucket(z)) > 2} |-> Bucket(sz)]

\* DuplicateDetector::group_by_size: files whose metadata reads and whose
\* size is at least min_size, by size; buckets of one file dropped
group_by_size(fl) ==
    LET Sized(p) == MetadataOk(disk[p]) /\ disk[p].size >= options.min_size
        sized == SelectSeq(fl, Sized)
        Bucket(sz) == LET Has(p) == disk[p].size = sz IN SelectSeq(sized, Has)
        sizes == {disk[sized[i]].size : i \in 1..Len(sized)}
    IN  [sz \in {z \in sizes : Len(Bucket(z)) > 1} |-> Bucket(sz)]

\* DuplicateDetector::calculate_partial_hashes: the files of a size group
\* whose partial hash could be computed
calculate_partial_hashes(fl) ==
    LET Ok(p) == PartialOk(disk[p]) IN SelectSeq(fl, Ok)

\* variant of same_partial_paths that keeps the partial groups of one file
same_partial_paths_Single(fl) == calculate_partial_hashes(fl)

\* calculate_and_group_by_hash, loop body: the files of one size group that
\* share their partial hash with another file of the group
same_partial_paths(fl) ==
    LET ph == calculate_partial_hashes(fl)
        Shared(p) == \E i \in 1..Len(ph) :
                        ph[i] # p /\ PartialHash(disk[ph[i]]) = PartialHash(disk[p])
    IN  SelectSeq(ph, Shared)

\* calculate_and_group_by_hash, loop body: hash_groups after the files of
\* one size group were pushed under their full hashes
push_full_hashes(hg, fl) ==
    LET Ok(p) == FullOk(disk[p])
        hashed == SelectSeq(same_partial_paths(fl), Ok)
        keys == DOMAIN hg \cup {FullHash(disk[hashed[i]]) : i \in 1..Len(hashed)}
        Pushed(h) == LET Is(p) == FullHash(disk[p]) = h IN SelectSeq(hashed, Is)
    IN  [h \in keys |-> (IF h \in DOMAIN hg THEN hg[h] ELSE << >>) \o Pushed(h)]

\* Vec::sort_by on modified_time, which is stable: e goes behind every
\* element that is not later than it
RECURSIVE sort_by_modified_time(_)
sort_by_modified_time(s) ==
    IF s = << >> THEN << >>
    ELSE LET front == sort_by_modified_time(SubSeq(s, 1, Len(s) - 1))
             e == s[Len(s)]
             k == Cardinality({i \in 1..Len(front) :
                                 front[i].modified_time <= e.modified_time})
         IN  SubSeq(front, 1, k) \o << e >> \o SubSeq(front, k + 1, Len(front))

\* variant of wasted that counts every file of the group
wasted_AllFiles(size, n) == size * n

\* wasted_space of a group of n files of one size
wasted(size, n) == size * (n - 1)

\* create_duplicate_groups, loop body: the DuplicateGroup of one hash group.
\* is_original is index == 0 before the sort; after the sort the first
\* file's is_original is set
duplicate_group(h, fl) ==
    LET duplicate_files ==
            [i \in 1..Len(fl) |-> [path |-> fl[i],
                                   modified_time |-> modified_time(disk[fl[i]]),
                                   is_original |-> (i = 1)]]
        sorted == sort_by_modified_time(duplicate_files)
    IN  [hash |-> h, size |-> disk[fl[1]].size,
         files |-> [sorted EXCEPT ![1].is_original = TRUE],
         wasted_space |-> wasted(disk[fl[1]].size, Len(fl))]

\* Iterator::sum over a sequence of numbers
RECURSIVE sum(_)
sum(s) == IF s = << >> THEN 0 ELSE s[1] + sum(Tail(s))

\* find_duplicates: the totals of the returned DuplicateAnalysisResult
analysis_result(gs) ==
    [total_groups |-> Len(gs),
     total_files  |-> sum([i \in DOMAIN gs |-> Len(gs[i].files)]),
     total_size   |-> sum([i \in DOMAIN gs |-> gs[i].size * Len(gs[i].files)]),
     wasted_space |-> sum([i \in DOMAIN gs |-> gs[i].wasted_space])]

\* find_duplicates_internal: files = scan_files(paths)
ScanFiles ==
    /\ dpc = "scan"
    /\ files' = scan_files
    /\ dpc' = "size"
    /\ UNCHANGED << disk, options, size_groups, pending, hash_groups, groups,
                    result, hlog, scanVars, utilVars >>

\* find_duplicates_internal: size_groups = group_by_size(&files)
GroupBySize ==
    /\ dpc = "size"
    /\ size_groups' = group_by_size(files)
    /\ pending' = DOMAIN size_groups'
    /\ dpc' = "hash"
    /\ UNCHANGED << disk, options, files, hash_groups, groups, result, hlog,
                    scanVars, utilVars >>

\* variant of HashSizeGroup that computes the full hashes of a size group
\* before its partial hashes
HashSizeGroup_FullFirst(sz) ==
    /\ dpc = "hash"
    /\ sz \in pending
    /\ pending' = pending \ {sz}
    /\ hash_groups' = push_full_hashes(hash_groups, size_groups[sz])
    /\ hlog' = LET fl == size_groups[sz]
                   full == same_partial_paths(fl)
               IN  hlog \o (IF full = << >> THEN << >>
                            ELSE << [hash |-> "full", files |-> {full[i] : i \in 1..Len(full)}] >>)
                        \o << [hash |-> "partial", files |-> {fl[i] : i \in 1..Len(fl)}] >>
    /\ UNCHANGED << disk, options, dpc, files, size_groups, groups, result,
                    scanVars, utilVars >>

\* calculate_and_group_by_hash: one iteration of the loop over size_groups,
\* a HashMap, in whatever order it yields them: the partial hashes of the
\* group, then the full hashes of the files that share a partial hash
HashSizeGroup(sz) ==
    /\ dpc = "hash"
    /\ sz \in pending
    /\ pending' = pending \ {sz}
    /\ hash_groups' = push_full_hashes(hash_groups, size_groups[sz])
    /\ hlog' = LET fl == size_groups[sz]
                   full == same_partial_paths(fl)
               IN  hlog \o << [hash |-> "partial", files |-> {fl[i] : i \in 1..Len(fl)}] >>
                        \o (IF full = << >> THEN << >>
                            ELSE << [hash |-> "full", files |-> {full[i] : i \in 1..Len(full)}] >>)
    /\ UNCHANGED << disk, options, dpc, files, size_groups, groups, result,
                    scanVars, utilVars >>

\* calculate_and_group_by_hash: the return, which keeps the hash groups of
\* more than one file
HashGroupsReturn ==
    /\ dpc = "hash"
    /\ pending = {}
    /\ hash_groups' = [h \in {k \in DOMAIN hash_groups : Len(hash_groups[k]) > 1}
                          |-> hash_groups[h]]
    /\ dpc' = "finalize"
    /\ UNCHANGED << disk, options, files, size_groups, pending, groups, result,
                    hlog, scanVars, utilVars >>

\* duplicate_groups.sort_by(|a, b| b.wasted_space.cmp(&a.wasted_space)):
\* stable, by wasted_space descending
RECURSIVE sort_by_wasted_space(_)
sort_by_wasted_space(s) ==
    IF s = << >> THEN << >>
    ELSE LET front == sort_by_wasted_space(SubSeq(s, 1, Len(s) - 1))
             e == s[Len(s)]
             k == Cardinality({i \in 1..Len(front) :
                                 front[i].wasted_space >= e.wasted_space})
         IN  SubSeq(front, 1, k) \o << e >> \o SubSeq(front, k + 1, Len(front))

\* variant of CreateDuplicateGroups that returns the groups as they were
\* pushed
CreateDuplicateGroups_Unsorted ==
    /\ dpc = "finalize"
    /\ LET built == {duplicate_group(h, hash_groups[h]) :
                        h \in {k \in DOMAIN hash_groups : Len(hash_groups[k]) >= 2}}
       IN  \E duplicate_groups \in [1..Cardinality(built) -> built] :
              /\ \A i, j \in DOMAIN duplicate_groups :
                    i # j => duplicate_groups[i] # duplicate_groups[j]
              /\ groups' = duplicate_groups
    /\ dpc' = "result"
    /\ UNCHANGED << disk, options, files, size_groups, pending, hash_groups,
                    result, hlog, scanVars, utilVars >>

\* create_duplicate_groups: one group per hash group of at least two files,
\* pushed in the order the HashMap yields them, then sorted by wasted_space
\* descending
CreateDuplicateGroups ==
    /\ dpc = "finalize"
    /\ LET built == {duplicate_group(h, hash_groups[h]) :
                        h \in {k \in DOMAIN hash_groups : Len(hash_groups[k]) >= 2}}
       IN  \E duplicate_groups \in [1..Cardinality(built) -> built] :
              /\ \A i, j \in DOMAIN duplicate_groups :
                    i # j => duplicate_groups[i] # duplicate_groups[j]
              /\ groups' = sort_by_wasted_space(duplicate_groups)
    /\ dpc' = "result"
    /\ UNCHANGED << disk, options, files, size_groups, pending, hash_groups,
                    result, hlog, scanVars, utilVars >>

\* find_duplicates: the DuplicateAnalysisResult is built and returned
FindDuplicatesReturn ==
    /\ dpc = "result"
    /\ result' = analysis_result(groups)
    /\ dpc' = "done"
    /\ UNCHANGED << disk, options, files, size_groups, pending, hash_groups,
                    groups, hlog, scanVars, utilVars >>

\* the files a directory tree can hold: sequences of at most MaxFiles files
Trees(dirs, sizes, mtimes, fails) ==
    UNION {[1..n -> [dir : dirs, size : sizes, content : Contents,
                     mtime : mtimes, fail : fails]] : n \in 0..MaxFiles}

\* a tree of one file more than MaxFiles, enough for two size groups of
\* two files each
LargeTrees ==
    [1..MaxFiles + 1 -> [dir : {"D:/data"}, size : {1, 2},
                         content : {[head |-> "a", tail |-> "x"], [head |-> "a", tail |-> "y"]},
                         mtime : {1}, fail : {"none"}]]

\* find_duplicates is called on a tree whose files differ in size, content
\* and modification time; or in directory, size and content, under any of
\* the options; or in content and in what fails when they are read; or on
\* a larger tree of readable files
DetectorInit ==
    /\ dpc = "scan"
    /\ files = << >> /\ size_groups = << >> /\ pending = {}
    /\ hash_groups = << >> /\ groups = << >> /\ hlog = << >>
    /\ result = [total_groups |-> 0, total_files |-> 0, total_size |-> 0, wasted_space |-> 0]
    /\ \/ /\ disk \in Trees({"D:/data"}, {1, 2}, {1, 2}, {"none"})
          /\ options = [min_size |-> 1, max_size |-> NoMax]
       \/ /\ disk \in Trees(Dirs, {1, 2}, {1}, {"none"})
          /\ options \in OptionChoices
       \/ /\ disk \in Trees({"D:/data"}, {2}, {1}, Failures)
          /\ options = [min_size |-> 1, max_size |-> NoMax]
       \/ /\ disk \in LargeTrees
          /\ options = [min_size |-> 1, max_size |-> NoMax]

InitDup == ManagerInit /\ DetectorInit /\ UtilIdle

NextDup ==
    \/ ScanFiles
    \/ GroupBySize
    \/ \E sz \in pending : HashSizeGroup(sz)
    \/ HashGroupsReturn
    \/ CreateDuplicateGroups
    \/ FindDuplicatesReturn

SpecDup == InitDup /\ [][NextDup]_vars

\* ------------------------------------------- suggest_files_to_delete
\* files of the group passed to suggest_files_to_delete
MaxMembers == 3

\* directory names calculate_delete_score looks for in the lower-cased path
Places == {"temp", "downloads", "desktop", "documents"}

\* the term of the score that b switches on
Term(b, points) == IF b THEN points ELSE 0

\* DuplicateDetector::calculate_delete_score: the score is the sum of the
\* terms added less the terms subtracted
calculate_delete_score(file) ==
    LET plus == Term("temp" \in file.places, 50) + Term("downloads" \in file.places, 30)
        minus == Term("desktop" \in file.places, 20) + Term("documents" \in file.places, 30)
                   + Term(file.is_original, 100)
    IN  [negative |-> minus > plus,
         abs |-> IF minus > plus THEN minus - plus ELSE plus - minus]

\* b.1.cmp(&a.1) is not Greater: score a is at least score b
AtLeast(a, b) ==
    CASE a.negative /\ b.negative -> a.abs <= b.abs
      [] a.negative /\ ~b.negative -> b.abs = 0 /\ a.abs = 0
      [] ~a.negative /\ b.negative -> TRUE
      [] OTHER -> a.abs >= b.abs

\* files_with_scores.sort_by(|a, b| b.1.cmp(&a.1)): stable, by score
\* descending
RECURSIVE sort_by_score(_)
sort_by_score(s) ==
    IF s = << >> THEN << >>
    ELSE LET front == sort_by_score(SubSeq(s, 1, Len(s) - 1))
             e == s[Len(s)]
             k == Cardinality({i \in 1..Len(front) : AtLeast(front[i].score, e.score)})
         IN  SubSeq(front, 1, k) \o << e >> \o SubSeq(front, k + 1, Len(front))

\* DuplicateDetector::suggest_files_to_delete: the indexes of the files
\* whose paths are returned
suggest_files_to_delete(g) ==
    IF Len(g) < 2 THEN << >>
    ELSE LET files_with_scores ==
                 sort_by_score([i \in 1..Len(g) |->
                                  [index |-> i, score |-> calculate_delete_score(g[i])]])
             below == {k \in 1..Len(g) : files_with_scores[k].score.negative}
             original_index ==
                 IF below = {} THEN 1
                 ELSE files_with_scores[CHOOSE k \in below : \A l \in below : k <= l].index
             Other(i) == i # original_index
         IN  SelectSeq([i \in 1..Len(g) |-> i], Other)

\* suggest_files_to_delete(group) is called and returns
SuggestFilesToDelete ==
    /\ spc = "call"
    /\ suggestion' = suggest_files_to_delete(sgroup)
    /\ spc' = "done"
    /\ UNCHANGED << sgroup, scanVars, dupVars, hashVars, cmpVars, moreVars >>

\* a group of up to MaxMembers files, each under any of the places and
\* marked original or not
InitSuggest ==
    /\ ManagerInit /\ DetectorIdle /\ HashIdle /\ CompareIdle /\ MoreIdle
    /\ sgroup \in UNION {[1..n -> [places : SUBSET Places, is_original : BOOLEAN]] :
                            n \in 0..MaxMembers}
    /\ suggestion = << >>
    /\ spc = "call"

NextSuggest == SuggestFilesToDelete

SpecSuggest == InitSuggest /\ [][NextSuggest]_vars

\* ---------------------------------------------------- HashCalculator
\* DEFAULT_CACHE_SIZE
DEFAULT_CACHE_SIZE == 1000

\* the largest max_size passed to with_cache_and_size
MaxSizeArg == 1

\* the modification times a file can have: SystemTime values, which the
\* calculator only compares for equality
Mtimes == {"t1", "t2"}

\* the paths hashes are asked for
HPaths == {"p1", "p2"}

\* file data as the chunks successive reads return; the size of a file is
\* the number of its chunks
Data == {<< "a" >>, << "b" >>, << "a", "b" >>}
FileStates == [data : Data, mtime : Mtimes]

\* the ways a HashCalculator is constructed
Constructors ==
    {[fn |-> "new", enabled |-> TRUE, max_size |-> 0]}
    \cup [fn : {"with_cache"}, enabled : BOOLEAN, max_size : {0}]
    \cup [fn : {"with_cache_and_size"}, enabled : BOOLEAN, max_size : 0..MaxSizeArg]

\* the capacity the constructor gives the LruCache
cap(c) ==
    IF c.fn = "with_cache_and_size"
    THEN IF c.max_size > 1 THEN c.max_size ELSE 1
    ELSE DEFAULT_CACHE_SIZE

cache_enabled == ctor.enabled

\* LruCache::get: the position of the entry of path in the cache, 0 if none
peek(c, path) ==
    IF \E i \in DOMAIN c : c[i].path = path
    THEN CHOOSE i \in DOMAIN c : c[i].path = path
    ELSE 0

\* LruCache::get: the entry found becomes the most recently used
get(c, path) ==
    LET Other(e) == e.path # path
    IN  IF peek(c, path) = 0 THEN c
        ELSE << c[peek(c, path)] >> \o SelectSeq(c, Other)

\* variant of put that never evicts
put_NoEvict(c, e) ==
    LET Other(x) == x.path # e.path
    IN  << e >> \o SelectSeq(c, Other)

\* LruCache::put: replaces the entry of the path or inserts it, as the most
\* recently used; a full cache first drops its least recently used entry
put(c, e) ==
    LET Other(x) == x.path # e.path
        rest == SelectSeq(c, Other)
    IN  << e >> \o (IF Len(rest) >= cap(ctor) THEN SubSeq(rest, 1, cap(ctor) - 1) ELSE rest)

\* variant of hit that does not compare the modified time
hit_AnyTime(path, f) ==
    /\ cache_enabled
    /\ peek(cache, path) # 0
    /\ cache[peek(cache, path)].file_size = Len(f.data)

\* the cache check of calculate_file_hash_internal: the entry of the path
\* has the modified time and the size just read
hit(path, f) ==
    /\ cache_enabled
    /\ peek(cache, path) # 0
    /\ cache[peek(cache, path)].modified_time = f.mtime
    /\ cache[peek(cache, path)].file_size = Len(f.data)

\* calculate_file_hash_internal: File::open or the metadata read fails
OpenFails(path) ==
    /\ hpc = "idle"
    /\ hret' = [kind |-> "io", hash |-> << >>]
    /\ UNCHANGED << hfiles, ctor, cache, hpc, hcall, hasher, scanVars, dupVars, sugVars, cmpVars, moreVars >>

\* calculate_file_hash_internal up to the read loop: the file is opened,
\* its modified time and size are read and the cache is looked up, which
\* makes the entry of the path the most recently used; a matching entry
\* is returned
HashRequest(path) ==
    /\ hpc = "idle"
    /\ cache' = IF cache_enabled THEN get(cache, path) ELSE cache
    /\ IF hit(path, hfiles[path])
       THEN /\ hret' = [kind |-> "cached", hash |-> cache[peek(cache, path)].hash]
            /\ UNCHANGED << hpc, hcall, hasher >>
       ELSE /\ hpc' = "read"
            /\ hcall' = [path |-> path, modified_time |-> hfiles[path].mtime,
                         file_size |-> Len(hfiles[path].data)]
            /\ hasher' = << >>
            /\ hret' = NoReturn
    /\ UNCHANGED << hfiles, ctor, scanVars, dupVars, sugVars, cmpVars, moreVars >>

\* the read loop: a read returns the next chunk of the file as it is now
ReadChunk ==
    /\ hpc = "read"
    /\ Len(hasher) < Len(hfiles[hcall.path].data)
    /\ hasher' = Append(hasher, hfiles[hcall.path].data[Len(hasher) + 1])
    /\ UNCHANGED << hfiles, ctor, cache, hpc, hcall, hret, scanVars, dupVars, sugVars, cmpVars, moreVars >>

\* the read loop ends: a read returns 0, the hash is finalized, stored with
\* the modified time and size read at the start, and returned
ReadEnd ==
    /\ hpc = "read"
    /\ Len(hasher) >= Len(hfiles[hcall.path].data)
    /\ cache' = IF cache_enabled
                THEN put(cache, [path |-> hcall.path, hash |-> hasher,
                                 modified_time |-> hcall.modified_time,
                                 file_size |-> hcall.file_size])
                ELSE cache
    /\ hret' = [kind |-> "hash", hash |-> hasher]
    /\ hpc' = "idle" /\ hcall' = NoCall /\ hasher' = << >>
    /\ UNCHANGED << hfiles, ctor, scanVars, dupVars, sugVars, cmpVars, moreVars >>

\* the read loop: a read fails and the call returns IoError
ReadFails ==
    /\ hpc = "read"
    /\ hret' = [kind |-> "io", hash |-> << >>]
    /\ hpc' = "idle" /\ hcall' = NoCall /\ hasher' = << >>
    /\ UNCHANGED << hfiles, ctor, cache, scanVars, dupVars, sugVars, cmpVars, moreVars >>

\* variant of Timeout that stores the hash of what was read so far
Timeout_StoresPartial ==
    /\ hpc = "read"
    /\ hret' = [kind |-> "timeout", hash |-> << >>]
    /\ cache' = IF cache_enabled
                THEN put(cache, [path |-> hcall.path, hash |-> hasher,
                                 modified_time |-> hcall.modified_time,
                                 file_size |-> hcall.file_size])
                ELSE cache
    /\ hpc' = "idle" /\ hcall' = NoCall /\ hasher' = << >>
    /\ UNCHANGED << hfiles, ctor, scanVars, dupVars, sugVars, cmpVars, moreVars >>

\* the time budget expires inside the read loop: the timeout of
\* calculate_file_hash drops the call, or calculate_large_file_hash finds
\* the time elapsed; the call returns HashCalculationTimeout
Timeout ==
    /\ hpc = "read"
    /\ hret' = [kind |-> "timeout", hash |-> << >>]
    /\ hpc' = "idle" /\ hcall' = NoCall /\ hasher' = << >>
    /\ UNCHANGED << hfiles, ctor, cache, scanVars, dupVars, sugVars, cmpVars, moreVars >>

\* another program writes the file: its data, its modified time or both
\* change, at any moment
ModifyFile(path) ==
    /\ \E f \in FileStates \ {hfiles[path]} : hfiles' = [hfiles EXCEPT ![path] = f]
    /\ UNCHANGED << ctor, cache, hpc, hcall, hasher, hret, scanVars, dupVars, sugVars, cmpVars, moreVars >>

\* HashCalculator::clear_cache, which needs the calculator to itself
ClearCache ==
    /\ hpc = "idle"
    /\ cache' = << >>
    /\ UNCHANGED << hfiles, ctor, hpc, hcall, hasher, hret, scanVars, dupVars, sugVars, cmpVars, moreVars >>

\* a calculator made by any constructor, with an empty cache, and two files
InitHash ==
    /\ ManagerInit /\ DetectorIdle /\ SuggestIdle /\ CompareIdle /\ MoreIdle
    /\ hfiles \in [HPaths -> FileStates]
    /\ ctor \in Constructors
    /\ cache = << >> /\ hpc = "idle" /\ hcall = NoCall /\ hasher = << >>
    /\ hret = NoReturn

NextHash ==
    \/ \E path \in HPaths : OpenFails(path)
    \/ \E path \in HPaths : HashRequest(path)
    \/ ReadChunk
    \/ ReadEnd
    \/ ReadFails
    \/ Timeout
    \/ \E path \in HPaths : ModifyFile(path)
    \/ ClearCache

SpecHash == InitHash /\ [][NextHash]_vars

\* ------------------------------------------------------ quick_compare
\* the files compared: the first 64 KiB, what follows them ("" for
\* nothing), and what fails for the file: nothing, fs::metadata,
\* File::open, or a read after the first 64 KiB
CompareFiles == [head : {"a", "b"}, tail : {"", "x", "y"},
                 fail : {"none", "metadata", "open", "read"}]

\* metadata.len(), in blocks of 64 KiB
len(f) == IF f.tail = "" THEN 1 ELSE 2

\* HashCalculator::calculate_partial_hash: SHA-256 of buffer[..bytes_read],
\* the bytes the one read call returned: all of the first 64 KiB, or fewer
partial_hash(f, bytes_read) == [block |-> f.head, bytes |-> bytes_read]

\* HashCalculator::calculate_file_hash of a file not in the cache: SHA-256
\* of the whole content
full_hash(f) == << len(f), f.head, f.tail >>

\* the result of a failed step: the detector's quick_compare turns an error
\* into false, the calculator's returns it
failed == IF centry = "detector" THEN "false" ELSE "err"

Return(r) == cret' = r /\ cpc' = "done"

\* DuplicateDetector::quick_compare up to the call of quick_compare_sync:
\* the metadata of both files, then their sizes
CompareSizes ==
    /\ cpc = "meta"
    /\ IF cfiles[1].fail = "metadata" \/ cfiles[2].fail = "metadata" THEN Return("false")
       ELSE IF len(cfiles[1]) # len(cfiles[2]) THEN Return("false")
       ELSE cpc' = "partial1" /\ UNCHANGED cret
    /\ UNCHANGED << cfiles, centry, clog, scanVars, dupVars, sugVars, hashVars, moreVars >>

\* HashCalculator::quick_compare: the partial hash of path1
ComparePartial1 ==
    /\ cpc = "partial1"
    /\ IF cfiles[1].fail = "open" THEN Return(failed) /\ UNCHANGED clog
       ELSE /\ \E bytes_read \in {"all", "fewer"} :
                 clog' = Append(clog, [hash |-> "partial", file |-> 1,
                                       value |-> partial_hash(cfiles[1], bytes_read)])
            /\ cpc' = "partial2" /\ UNCHANGED cret
    /\ UNCHANGED << cfiles, centry, scanVars, dupVars, sugVars, hashVars, moreVars >>

\* HashCalculator::quick_compare: the partial hash of path2 and the
\* comparison of the two partial hashes
ComparePartial2 ==
    /\ cpc = "partial2"
    /\ IF cfiles[2].fail = "open" THEN Return(failed) /\ UNCHANGED clog
       ELSE \E bytes_read \in {"all", "fewer"} :
              LET hash2 == partial_hash(cfiles[2], bytes_read)
              IN  /\ clog' = Append(clog, [hash |-> "partial", file |-> 2, value |-> hash2])
                  /\ IF clog[Len(clog)].value # hash2 THEN Return("false")
                     ELSE cpc' = "full1" /\ UNCHANGED cret
    /\ UNCHANGED << cfiles, centry, scanVars, dupVars, sugVars, hashVars, moreVars >>

\* HashCalculator::quick_compare: the full hash of path1
CompareFull1 ==
    /\ cpc = "full1"
    /\ IF cfiles[1].fail # "none" THEN Return(failed) /\ UNCHANGED clog
       ELSE /\ clog' = Append(clog, [hash |-> "full", file |-> 1, value |-> full_hash(cfiles[1])])
            /\ cpc' = "full2" /\ UNCHANGED cret
    /\ UNCHANGED << cfiles, centry, scanVars, dupVars, sugVars, hashVars, moreVars >>

\* HashCalculator::quick_compare: the full hash of path2 and the comparison
\* of the two full hashes
CompareFull2 ==
    /\ cpc = "full2"
    /\ IF cfiles[2].fail # "none" THEN Return(failed) /\ UNCHANGED clog
       ELSE /\ clog' = Append(clog, [hash |-> "full", file |-> 2, value |-> full_hash(cfiles[2])])
            /\ Return(IF clog[Len(clog)].value = full_hash(cfiles[2]) THEN "true" ELSE "false")
    /\ UNCHANGED << cfiles, centry, scanVars, dupVars, sugVars, hashVars, moreVars >>

\* DuplicateDetector::quick_compare or HashCalculator::quick_compare is
\* called on two files
InitCompare ==
    /\ ManagerInit /\ DetectorIdle /\ SuggestIdle /\ HashIdle /\ MoreIdle
    /\ cfiles \in [1..2 -> CompareFiles]
    /\ centry \in {"detector", "calculator"}
    /\ cpc = IF centry = "detector" THEN "meta" ELSE "partial1"
    /\ clog = << >> /\ cret = "none"

NextCompare ==
    \/ CompareSizes
    \/ ComparePartial1
    \/ ComparePartial2
    \/ CompareFull1
    \/ CompareFull2

SpecCompare == InitCompare /\ [][NextCompare]_vars

\* --------------------------------------------- FileFilter, FileWalker
\* the tree walked: the root directory r holds the directory d and the
\* file g, d holds the file f, and one symbolic link l lies in r or in d
Nodes == {"r", "d", "f", "g", "l"}
WalkTrees ==
    [lparent : {"r", "d"}, ltarget : {"r", "d", "g"},
     hidden : SUBSET {"d", "f", "g"}, system : SUBSET {"f"},
     excluded : SUBSET {"d"}, fails : {"none", "d", "f", "g"}]

\* the FileWalker and the FilterOptions of its filter, the build, and the
\* scan that walks: the large-file scan, through FileWalker and
\* StandardFileFilter, or the disk scan, through WalkDir and its own filter
Walkers ==
    [follow_links : BOOLEAN, include_hidden : BOOLEAN, include_system : BOOLEAN,
     platform : {"windows", "unix"}, scan : {"large"}]
    \cup [follow_links : {FALSE}, include_hidden : BOOLEAN, include_system : {FALSE},
          platform : {"windows", "unix"}, scan : {"disk"}]

\* an item of the iterator: the entry of a node, reached through the link
\* or not, or the error met at the node
Entry(n, v) == [node |-> n, via |-> v, err |-> FALSE]
ErrorAt(n, v) == [node |-> n, via |-> v, err |-> TRUE]

Kind(n) == IF n \in {"r", "d"} THEN "dir" ELSE IF n = "l" THEN "symlink" ELSE "file"

\* variant of follows in which links are always followed
follows_Always(w) == TRUE

\* WalkDir::follow_links(self.follow_links)
follows(w) == w.follow_links

\* the node an entry stands for: the target of the link when links are
\* followed
Real(w, t, e) == IF e.node = "l" /\ follows(w) THEN t.ltarget ELSE e.node

\* DirEntry::file_type
file_type(w, t, e) == Kind(Real(w, t, e))

\* walkdir's loop check: a followed link that leads to a directory it lies in
Loop(w, t, e) ==
    /\ e.node = "l" /\ follows(w)
    /\ t.ltarget = "r" \/ (t.ltarget = "d" /\ t.lparent = "d")

\* the entries of a directory, in read_dir order
Children(t, n) ==
    (IF n = "r" THEN << "d", "g" >> ELSE IF n = "d" THEN << "f" >> ELSE << >>)
        \o (IF t.lparent = n THEN << "l" >> ELSE << >>)

\* the path of the entry starts with an exclude path or a protected path
Excluded(t, e) ==
    /\ ~e.via /\ "d" \in t.excluded
    /\ e.node \in {"d", "f"} \/ (e.node = "l" /\ t.lparent = "d")

\* the hidden and system tests of should_include for a file: the
\* attributes under cfg(windows), the leading dot of the name otherwise
HiddenOrSystem(w, t, e) ==
    \/ ~w.include_hidden /\ Real(w, t, e) \in t.hidden
    \/ w.platform = "windows" /\ ~w.include_system /\ Real(w, t, e) \in t.system

\* variant of should_include that tests the attributes of directories too
should_include_Attributes(w, t, e) ==
    IF Excluded(t, e) THEN FALSE
    ELSE ~HiddenOrSystem(w, t, e)

\* StandardFileFilter::should_include
should_include(w, t, e) ==
    IF Excluded(t, e) THEN FALSE
    ELSE IF file_type(w, t, e) = "dir" THEN TRUE
    ELSE ~HiddenOrSystem(w, t, e)

\* the filter_entry closure of the disk scan
disk_filter(w, t, e) == ~(~w.include_hidden /\ Real(w, t, e) \in t.hidden)

\* the predicate given to filter_entry
filter_entry(w, t, e) ==
    IF w.scan = "large" THEN should_include(w, t, e) ELSE disk_filter(w, t, e)

\* what the iterator holds after it yielded the entry e: for a directory
\* its entries, or the error of reading it, before the rest
Descend(w, t, e, rest) ==
    IF file_type(w, t, e) # "dir" THEN rest
    ELSE IF t.fails = Real(w, t, e) THEN << ErrorAt(e.node, e.via) >> \o rest
    ELSE LET c == Children(t, Real(w, t, e))
         IN  [i \in 1..Len(c) |-> Entry(c[i], e.via \/ e.node = "l")] \o rest

\* variant of WalkNext in which an error ends the traversal of the scan
WalkNext_StopsOnError ==
    /\ wstack # << >>
    /\ LET e == Head(wstack)
       IN  IF e.err \/ Loop(walker, tree, e)
           THEN /\ yielded' = Append(yielded, ErrorAt(e.node, e.via))
                /\ wstack' = << >> /\ wresult' = "Err"
                /\ UNCHANGED << reported, wcount >>
           ELSE IF ~filter_entry(walker, tree, e)
           THEN wstack' = Tail(wstack) /\ UNCHANGED << yielded, reported, wcount, wresult >>
           ELSE /\ yielded' = Append(yielded, e)
                /\ wstack' = Descend(walker, tree, e, Tail(wstack))
                /\ IF file_type(walker, tree, e) # "file"
                   THEN UNCHANGED << reported, wcount >>
                   ELSE IF tree.fails = Real(walker, tree, e)
                   THEN /\ wcount' = IF walker.scan = "large" THEN wcount + 1 ELSE wcount
                        /\ UNCHANGED reported
                   ELSE /\ wcount' = wcount + 1
                        /\ reported' = Append(reported, e)
                /\ UNCHANGED wresult
    /\ UNCHANGED << tree, walker, notWalk >>

\* one turn of the loop over the walker: the iterator drops the entries
\* filter_entry rejects and yields the next item, and the scan handles it:
\* an error is passed over, a file is counted and, when its metadata
\* reads, reported
WalkNext ==
    /\ wstack # << >>
    /\ LET e == Head(wstack)
       IN  IF e.err \/ Loop(walker, tree, e)
           THEN /\ yielded' = Append(yielded, ErrorAt(e.node, e.via))
                /\ wstack' = Tail(wstack)
                /\ UNCHANGED << reported, wcount, wresult >>
           ELSE IF ~filter_entry(walker, tree, e)
           THEN wstack' = Tail(wstack) /\ UNCHANGED << yielded, reported, wcount, wresult >>
           ELSE /\ yielded' = Append(yielded, e)
                /\ wstack' = Descend(walker, tree, e, Tail(wstack))
                /\ IF file_type(walker, tree, e) # "file"
                   THEN UNCHANGED << reported, wcount >>
                   ELSE IF tree.fails = Real(walker, tree, e)
                   THEN /\ wcount' = IF walker.scan = "large" THEN wcount + 1 ELSE wcount
                        /\ UNCHANGED reported
                   ELSE /\ wcount' = wcount + 1
                        /\ reported' = Append(reported, e)
                /\ UNCHANGED wresult
    /\ UNCHANGED << tree, walker, notWalk >>

\* the iterator is exhausted: the loop ends and the traversal returns
WalkEnd ==
    /\ wstack = << >> /\ wresult = "none"
    /\ wresult' = "Ok"
    /\ UNCHANGED << tree, walker, wstack, yielded, reported, wcount, notWalk >>

\* a scan starts to walk the root of a tree
InitWalk ==
    /\ ManagerInit /\ DetectorIdle /\ SuggestIdle /\ HashIdle /\ CompareIdle
    /\ CleanIdle /\ ThrottleIdle /\ LegacyIdle /\ RestartIdle
    /\ tree \in WalkTrees
    /\ walker \in Walkers
    /\ wstack = << Entry("r", FALSE) >>
    /\ yielded = << >> /\ reported = << >> /\ wcount = 0 /\ wresult = "none"

NextWalk == WalkNext \/ WalkEnd

SpecWalk == InitWalk /\ [][NextWalk]_vars

\* the loop over the walker keeps running
FairWalk == SpecWalk /\ WF_vars(NextWalk)

\* ---------------------------------------------------- CleanerExecutor
\* the longest list of paths given to a call
MaxList == 2

KPaths == {"a", "b"}

\* what clean_single meets at a path: a file it can delete, nothing, a
\* protected path, or a file whose deletion fails
KStates == {"file", "missing", "protected", "locked"}

\* CleanerExecutor::clean_single succeeds
Deletable(st) == st = "file"

\* variant of CleanLoop that does not count a file that failed
CleanLoop_FailureUncounted ==
    /\ kpc = "loop" /\ kidx < Len(klist)
    /\ IF kcancelled
       THEN kpc' = "result" /\ UNCHANGED << kdisk, kidx, kctx, kdeleted >>
       ELSE LET path == klist[kidx + 1]
            IN  /\ kidx' = kidx + 1
                /\ IF Deletable(kdisk[path])
                   THEN /\ kdisk' = [kdisk EXCEPT ![path] = "missing"]
                        /\ kdeleted' = kdeleted \cup {path}
                        /\ kctx' = [kctx EXCEPT !.cleaned_files = @ + 1]
                   ELSE UNCHANGED << kdisk, kdeleted, kctx >>
                /\ UNCHANGED kpc
    /\ UNCHANGED << klist, kentry, kcancelled, kstored, notClean >>

\* clean_with_progress: one turn of the loop over the files: is_cancelled
\* ends the loop; otherwise clean_single deletes the file, which is counted
\* as cleaned, or fails, which is counted as failed with an entry in errors
CleanLoop ==
    /\ kpc = "loop" /\ kidx < Len(klist)
    /\ IF kcancelled
       THEN kpc' = "result" /\ UNCHANGED << kdisk, kidx, kctx, kdeleted >>
       ELSE LET path == klist[kidx + 1]
            IN  /\ kidx' = kidx + 1
                /\ IF Deletable(kdisk[path])
                   THEN /\ kdisk' = [kdisk EXCEPT ![path] = "missing"]
                        /\ kdeleted' = kdeleted \cup {path}
                        /\ kctx' = [kctx EXCEPT !.cleaned_files = @ + 1]
                   ELSE /\ kctx' = [kctx EXCEPT !.failed_files = @ + 1,
                                                !.errors = Append(@, path)]
                        /\ UNCHANGED << kdisk, kdeleted >>
                /\ UNCHANGED kpc
    /\ UNCHANGED << klist, kentry, kcancelled, kstored, notClean >>

\* clean_with_progress: the list is done and Ok(CleanResult) is built
CleanResult ==
    /\ kpc = "loop" /\ kidx = Len(klist)
    /\ kpc' = "result"
    /\ UNCHANGED << kdisk, klist, kentry, kidx, kctx, kcancelled, kstored, kdeleted,
                    notClean >>

\* CleanerExecutor::cancel, from another task while clean runs
Cancel ==
    /\ kentry = "clean" /\ kpc = "loop" /\ ~kcancelled
    /\ kcancelled' = TRUE
    /\ UNCHANGED << kdisk, klist, kentry, kpc, kidx, kctx, kstored, kdeleted, notClean >>

\* CleanerExecutor::clean returns the CleanResult to its caller
CleanReturn ==
    /\ kentry = "clean" /\ kpc = "result"
    /\ kpc' = "done"
    /\ UNCHANGED << kdisk, klist, kentry, kidx, kctx, kcancelled, kstored, kdeleted,
                    notClean >>

\* delete_selected_files after executor.clean: when a file was cleaned,
\* the paths in cleaned_paths, which is made of file_paths, are taken out
\* of the full category list and of the scan result
DeleteSelectedUpdate ==
    /\ kentry = "delete_selected_files" /\ kpc = "result"
    /\ LET cleaned_paths == {klist[i] : i \in DOMAIN klist}
       IN  kstored' = IF kctx.cleaned_files > 0
                      THEN [result |-> kstored.result \ cleaned_paths,
                            full |-> kstored.full \ cleaned_paths]
                      ELSE kstored
    /\ kpc' = "done"
    /\ UNCHANGED << kdisk, klist, kentry, kidx, kctx, kcancelled, kdeleted, notClean >>

\* clean or delete_selected_files is called with a list of paths, after a
\* disk scan that listed some of the paths
InitClean ==
    /\ ManagerInit /\ DetectorIdle /\ SuggestIdle /\ HashIdle /\ CompareIdle
    /\ WalkIdle /\ ThrottleIdle /\ LegacyIdle /\ RestartIdle
    /\ kdisk \in [KPaths -> KStates]
    /\ klist \in UNION {[1..n -> KPaths] : n \in 0..MaxList}
    /\ kentry \in {"clean", "delete_selected_files"}
    /\ kpc = "loop" /\ kidx = 0
    /\ kctx = [NoContext EXCEPT !.total_files = Len(klist)]
    /\ kcancelled = FALSE
    /\ \E listed \in SUBSET KPaths : kstored = [result |-> listed, full |-> listed]
    /\ kdeleted = {}

NextClean ==
    \/ CleanLoop
    \/ CleanResult
    \/ Cancel
    \/ CleanReturn
    \/ DeleteSelectedUpdate

SpecClean == InitClean /\ [][NextClean]_vars

\* ------------------------------------------- ScanContext::update_progress
\* the largest interval passed to update_progress
MaxInterval == 3

\* the calls of update_progress and increment_counter followed
MaxCalls == 5

\* ScanContext::update_progress(update_fn, progress_store, interval): when
\* the counter is not a multiple of the interval it is advanced and the
\* call returns; otherwise update_fn is applied to the entry of the scan
\* and the event is emitted, and the counter is left as it is
UpdateProgress ==
    /\ Len(ulog) < MaxCalls
    /\ IF last_update % uinterval # 0
       THEN /\ last_update' = last_update + 1
            /\ ulog' = Append(ulog, "skip")
       ELSE /\ ulog' = Append(ulog, IF upresent THEN "update" ELSE "skip")
            /\ UNCHANGED last_update
    /\ UNCHANGED << uinterval, upresent, utouched, notThrottle >>

\* ScanContext::increment_counter
IncrementCounter ==
    /\ last_update < MaxCalls
    /\ last_update' = last_update + 1
    /\ utouched' = TRUE
    /\ UNCHANGED << uinterval, upresent, ulog, notThrottle >>

\* a scan task with a new ScanContext that passes one interval
InitThrottle ==
    /\ ManagerInit /\ DetectorIdle /\ SuggestIdle /\ HashIdle /\ CompareIdle
    /\ WalkIdle /\ CleanIdle /\ LegacyIdle /\ RestartIdle
    /\ last_update = 0 /\ uinterval \in 1..MaxInterval /\ upresent \in BOOLEAN
    /\ ulog = << >> /\ utouched = FALSE

NextThrottle == UpdateProgress \/ IncrementCounter

SpecThrottle == InitThrottle /\ [][NextThrottle]_vars

\* ------------------------------- disk_scan and the legacy large_file_scan
\* progress_map.get_mut(scan_id) sets the status when the entry is there
SetLegacyStatus(st) == IF gstatus = "NotFound" THEN "NotFound" ELSE st

\* perform_scan / perform_large_file_scan up to the walk: the status
\* Scanning is stored; large_file_scan returns Err when the path does not
\* exist
LegacyBegin ==
    /\ gpc = "begin"
    /\ gstatus' = SetLegacyStatus("Scanning")
    /\ gpc' = IF gentry = "large" /\ ~gpath THEN "err" ELSE "walk"
    /\ UNCHANGED << gentry, gpath, gresults, gfull, gcontroller, gcancel,
                    gleft, gclear, gseen, ggot, notLegacy >>

\* the spawned task on Err: the status Error is stored
LegacyErr ==
    /\ gpc = "err"
    /\ gstatus' = SetLegacyStatus("Error")
    /\ gpc' = "cleanup"
    /\ UNCHANGED << gentry, gpath, gresults, gfull, gcontroller, gcancel,
                    gleft, gclear, gseen, ggot, notLegacy >>

\* one iteration of `for entry in walker`: on a set cancel flag the status
\* Idle is stored and the function returns Ok, otherwise the entry is
\* handled
LegacyEntry ==
    /\ gpc = "walk"
    /\ gleft > 0
    /\ IF gcancel
       THEN /\ gstatus' = SetLegacyStatus("Idle")
            /\ gpc' = "cleanup"
            /\ UNCHANGED gleft
       ELSE /\ gleft' = gleft - 1
            /\ UNCHANGED << gstatus, gpc >>
    /\ UNCHANGED << gentry, gpath, gresults, gfull, gcontroller, gcancel,
                    gclear, gseen, ggot, notLegacy >>

\* after the walk: the result is built, then under SCAN_PROGRESS.write()
\* the status Completed is stored and the guard is dropped
LegacyCompleted ==
    /\ gpc = "walk"
    /\ gleft = 0
    /\ gstatus' = SetLegacyStatus("Completed")
    /\ gpc' = "result"
    /\ UNCHANGED << gentry, gpath, gresults, gfull, gcontroller, gcancel,
                    gleft, gclear, gseen, ggot, notLegacy >>

\* SCAN_RESULTS.write().await.insert(scan_id, result)
LegacyResult ==
    /\ gpc = "result"
    /\ gresults' = TRUE
    /\ gpc' = IF gentry = "disk" THEN "full" ELSE "cleanup"
    /\ UNCHANGED << gentry, gpath, gstatus, gfull, gcontroller, gcancel,
                    gleft, gclear, gseen, ggot, notLegacy >>

\* disk_scan: SCAN_FULL_CATEGORIES.write().await.insert(scan_id, ...)
LegacyFull ==
    /\ gpc = "full"
    /\ gfull' = TRUE
    /\ gpc' = "cleanup"
    /\ UNCHANGED << gentry, gpath, gstatus, gresults, gcontroller, gcancel,
                    gleft, gclear, gseen, ggot, notLegacy >>

\* the spawned task's SCAN_CONTROLLERS.write().await.remove(scan_id)
LegacyCleanup ==
    /\ gpc = "cleanup"
    /\ gcontroller' = FALSE
    /\ gpc' = "done"
    /\ UNCHANGED << gentry, gpath, gstatus, gresults, gfull, gcancel, gleft,
                    gclear, gseen, ggot, notLegacy >>

\* cancel_scan / cancel_large_file_scan: controller.cancel() when the
\* controller is there, then the status Idle is stored
LegacyCancel ==
    /\ gpc # "none"
    /\ gcancel' = (gcancel \/ gcontroller)
    /\ gstatus' = SetLegacyStatus("Idle")
    /\ UNCHANGED << gentry, gpath, gresults, gfull, gcontroller, gpc, gleft,
                    gclear, gseen, ggot, notLegacy >>

\* clear_scan_result / clear_large_file_scan_result, first await:
\* SCAN_RESULTS.write().await.remove(scan_id)
LegacyClearResults ==
    /\ gpc # "none"
    /\ gclear = "idle"
    /\ gresults' = FALSE
    /\ gclear' = "progress"
    /\ UNCHANGED << gentry, gpath, gstatus, gfull, gcontroller, gcancel, gpc,
                    gleft, gseen, ggot, notLegacy >>

\* second await: SCAN_PROGRESS.write().await.remove(scan_id)
LegacyClearProgress ==
    /\ gclear = "progress"
    /\ gstatus' = "NotFound"
    /\ gclear' = IF gentry = "disk" THEN "full" ELSE "returned"
    /\ UNCHANGED << gentry, gpath, gresults, gfull, gcontroller, gcancel,
                    gpc, gleft, gseen, ggot, notLegacy >>

\* disk_scan, third await: SCAN_FULL_CATEGORIES.write().await.remove(scan_id)
LegacyClearFull ==
    /\ gclear = "full"
    /\ gfull' = FALSE
    /\ gclear' = "returned"
    /\ UNCHANGED << gentry, gpath, gstatus, gresults, gcontroller, gcancel,
                    gpc, gleft, gseen, ggot, notLegacy >>

\* get_scan_progress / get_large_file_scan_progress
PollProgress ==
    /\ gpc # "none"
    /\ gseen' = (gseen \/ gstatus = "Completed")
    /\ UNCHANGED << gentry, gpath, gstatus, gresults, gfull, gcontroller,
                    gcancel, gpc, gleft, gclear, ggot, notLegacy >>

\* get_scan_result / get_large_file_scan_result
PollResult ==
    /\ gpc # "none"
    /\ ggot' = IF gseen THEN (IF gresults THEN "Some" ELSE "None") ELSE ggot
    /\ UNCHANGED << gentry, gpath, gstatus, gresults, gfull, gcontroller,
                    gcancel, gpc, gleft, gclear, gseen, notLegacy >>

\* start_scan / start_large_file_scan has returned: the progress and the
\* controller are stored and the task is spawned
InitLegacy ==
    /\ ManagerInit /\ DetectorIdle /\ SuggestIdle /\ HashIdle /\ CompareIdle
    /\ WalkIdle /\ CleanIdle /\ ThrottleIdle /\ RestartIdle
    /\ gentry \in {"disk", "large"}
    /\ gpath \in (IF gentry = "large" THEN BOOLEAN ELSE {TRUE})
    /\ gstatus = "Idle" /\ gresults = FALSE /\ gfull = FALSE
    /\ gcontroller = TRUE /\ gcancel = FALSE /\ gpc = "begin"
    /\ gleft \in 0..NumEntries
    /\ gclear = "idle" /\ gseen = FALSE /\ ggot = "none"

NextLegacy ==
    \/ LegacyBegin
    \/ LegacyErr
    \/ LegacyEntry
    \/ LegacyCompleted
    \/ LegacyResult
    \/ LegacyFull
    \/ LegacyCleanup
    \/ LegacyCancel
    \/ LegacyClearResults
    \/ LegacyClearProgress
    \/ LegacyClearFull
    \/ PollProgress
    \/ PollResult

SpecLegacy == InitLegacy /\ [][NextLegacy]_vars

\* ---------------------------- start_scan_with_id twice with one scan id
\* progress.set_status through store.get_mut(scan_id)
SetRestartStatus(st) == IF rstatus = "NotFound" THEN "NotFound" ELSE st

\* the second start_scan_with_id, first await:
\* progress_store.write().insert(id, initial)
RestartInsert ==
    /\ rstartpc = "idle"
    /\ rstatus' = "Idle"
    /\ rstartpc' = "inserted"
    /\ UNCHANGED << rctl, rtpc, rpause, rcancel, rresult, rleft, notRestart >>

\* the second start_scan_with_id, second await: ScanController::new,
\* controllers.write().insert(id, controller), which replaces the entry of
\* the id, tokio::spawn, return
RestartSpawn ==
    /\ rstartpc = "inserted"
    /\ rctl' = 2
    /\ rtpc' = [rtpc EXCEPT ![2] = "run"]
    /\ rstartpc' = "returned"
    /\ UNCHANGED << rpause, rcancel, rstatus, rresult, rleft, notRestart >>

\* pause_scan / resume_scan / cancel_scan: the controller found under the
\* id sends on its channel, then the status is stored
RestartCtl(op) ==
    /\ rpause' = IF rctl # 0 /\ op \in {"pause", "resume"}
                 THEN [rpause EXCEPT ![rctl] = (op = "pause")] ELSE rpause
    /\ rcancel' = IF rctl # 0 /\ op = "cancel"
                  THEN [rcancel EXCEPT ![rctl] = TRUE] ELSE rcancel
    /\ rstatus' = SetRestartStatus(CtlStatusValue(op))
    /\ UNCHANGED << rctl, rstartpc, rtpc, rresult, rleft, notRestart >>

\* a checkpoint of the closure of start g: it returns Err on its cancel
\* flag, waits on its pause flag, otherwise goes on, and returns Ok after
\* the last checkpoint
RestartCheckpoint(g) ==
    /\ rtpc[g] = "run"
    /\ ~rcancel[g] => ~rpause[g]
    /\ IF rcancel[g]
       THEN /\ rtpc' = [rtpc EXCEPT ![g] = "err"]
            /\ UNCHANGED rleft
       ELSE IF rleft[g] = 0
       THEN /\ rtpc' = [rtpc EXCEPT ![g] = "ok"]
            /\ UNCHANGED rleft
       ELSE /\ rleft' = [rleft EXCEPT ![g] = @ - 1]
            /\ UNCHANGED rtpc
    /\ UNCHANGED << rctl, rstartpc, rpause, rcancel, rstatus, rresult, notRestart >>

\* the spawned task, Ok arm: result_store.write().insert(id, result)
RestartTaskOk(g) ==
    /\ rtpc[g] = "ok"
    /\ rresult' = g
    /\ rtpc' = [rtpc EXCEPT ![g] = "cleanup"]
    /\ UNCHANGED << rctl, rstartpc, rpause, rcancel, rstatus, rleft, notRestart >>

\* the spawned task, Err arm: set_status(Error)
RestartTaskErr(g) ==
    /\ rtpc[g] = "err"
    /\ rstatus' = SetRestartStatus("Error")
    /\ rtpc' = [rtpc EXCEPT ![g] = "cleanup"]
    /\ UNCHANGED << rctl, rstartpc, rpause, rcancel, rresult, rleft, notRestart >>

\* the spawned task: controllers.write().await.remove(id)
RestartTaskCleanup(g) ==
    /\ rtpc[g] = "cleanup"
    /\ rctl' = 0
    /\ rtpc' = [rtpc EXCEPT ![g] = "done"]
    /\ UNCHANGED << rstartpc, rpause, rcancel, rstatus, rresult, rleft, notRestart >>

\* the first start_scan_with_id with the id has returned and its task runs
InitRestart ==
    /\ ManagerInit /\ DetectorIdle /\ SuggestIdle /\ HashIdle /\ CompareIdle
    /\ WalkIdle /\ CleanIdle /\ ThrottleIdle /\ LegacyIdle
    /\ rctl = 1 /\ rstartpc = "idle"
    /\ rtpc = [g \in Starts |-> IF g = 1 THEN "run" ELSE "none"]
    /\ rpause = [g \in Starts |-> FALSE]
    /\ rcancel = [g \in Starts |-> FALSE]
    /\ rstatus = "Idle" /\ rresult = 0
    /\ rleft \in [Starts -> 0..NumPhases]

NextRestart ==
    \/ RestartInsert
    \/ RestartSpawn
    \/ \E op \in CtlOps : RestartCtl(op)
    \/ \E g \in Starts : RestartCheckpoint(g)
    \/ \E g \in Starts : RestartTaskOk(g)
    \/ \E g \in Starts : RestartTaskErr(g)
    \/ \E g \in Starts : RestartTaskCleanup(g)

SpecRestart == InitRestart /\ [][NextRestart]_vars

\* ------------------------------------------------------------- claims
Running(id) == tpc[id] \notin {"none", "done"}
Terminated(id) == tpc[id] = "done"
InFlight(op, id) == [op |-> op, id |-> id] \in inflight
ClearCalled(id) == cleared[id] \/ InFlight("clear", id)

\* C1: once pause_scan(id) has returned and a whole 100 ms sleep of the
\* control loop has elapsed after that, the scanned_files counter of the
\* progress entry does not increase until resume_scan(id) is called.
C1_PausedCounterFrozen ==
    [][\A id \in ScanIds :
          ( /\ lastCtl[id] = "pause"
            /\ ticks[id] = 2
            /\ ~InFlight("resume", id)
            /\ Present(id) /\ Present(id)' )
          => progress_store'[id].scanned_files <= progress_store[id].scanned_files]_vars

\* C2: once resume_scan(id) has returned, with no later pause_scan or
\* cancel_scan, the scan advances again (the walker counts a file) or the
\* task terminates.
C2_ResumeAdvances ==
    \A id \in ScanIds :
        (lastCtl[id] = "resume" /\ Running(id))
          ~> ( \/ advanced[id]
               \/ Terminated(id)
               \/ lastCtl[id] # "resume"
               \/ InFlight("pause", id) \/ InFlight("cancel", id) )

\* C3: once the cancel flag of a scan whose task has not terminated is set,
\* the task terminates and its controller is removed.
C3_CancelTerminates ==
    \A id \in ScanIds :
        (cancel_sender[id] /\ Running(id))
          ~> (Terminated(id) /\ id \notin controllers)

\* C3 witness: a task cancelled while it waited in the pause loop has
\* terminated and its controller is gone
C3_Witness ==
    \E id \in ScanIds :
        /\ cancelObserved[id] /\ pause_sender[id] /\ cancel_sender[id]
        /\ Terminated(id) /\ id \notin controllers

\* C4: after the task returned because it observed the cancel flag, the
\* stored status is a terminal Cancelled status: not Error, and none of
\* Idle, Scanning, Paused.
C4_CancelledStatus ==
    \A id \in ScanIds :
        (Terminated(id) /\ cancelObserved[id] /\ Present(id))
          => StatusOf(id) \notin {"Error", "Idle", "Scanning", "Paused"}

\* C5: a task that observed the cancel flag at a checkpoint never has an
\* entry in the result store.
C5_CancelNoResult ==
    \A id \in ScanIds : cancelObserved[id] => GetResult(id) = NoResult

\* C6: when the scan closure has returned Ok, the stored status becomes
\* Completed: the task is the only writer that could store it, so once the
\* task has terminated a progress entry that is still there reads Completed.
C6_OkCompletes ==
    \A id \in ScanIds :
        (Terminated(id) /\ outcome[id] = "ok" /\ Present(id))
          => StatusOf(id) = "Completed"

\* C7: once the task has terminated, no step changes the stored status of
\* its progress entry (pause_scan, resume_scan, cancel_scan are no-ops).
C7_TerminalStatusKept ==
    [][\A id \in ScanIds :
          (Terminated(id) /\ Present(id) /\ Present(id)')
          => progress_store'[id].status = progress_store[id].status]_vars

\* C8: when the closure returned Err, at the step that removes the
\* controller no result is stored and the stored status is Error.
C8_ErrSetsError ==
    [][\A id \in ScanIds :
          (~Terminated(id) /\ Terminated(id)' /\ outcome[id] = "err")
          => /\ GetResult(id)' = NoResult
             /\ Present(id)' => StatusOf(id)' = "Error"]_vars

\* C9: after clear_scan(id) has returned, get_progress(id) and
\* get_result(id) are not-found in every later state.
C9_ClearedStaysCleared ==
    \A id \in ScanIds :
        cleared[id] => (GetProgress(id) = NotFound /\ GetResult(id) = NoResult)

\* C10: once start_scan has returned id the progress entry is there (until
\* clear_scan is called), the controller is registered for as long as the
\* task has not terminated, and a pause_scan or cancel_scan issued on a
\* task that has not terminated sets the task's flag.
C10_Registered ==
    \A id \in ScanIds :
        /\ Running(id) => id \in controllers
        /\ (startpc[id] = "returned" /\ ~ClearCalled(id)) => Present(id)
        /\ (InFlight("cancel", id) /\ Running(id)) => cancel_sender[id]

C10_StartRegistersFirst ==
    /\ []C10_Registered
    /\ [][\A id \in ScanIds :
            (~InFlight("pause", id) /\ InFlight("pause", id)' /\ Running(id))
            => pause_sender'[id]]_vars

\* C10 witness: a pause_scan issued right after start_scan returned, before
\* the task has taken its first step, has set the task's pause flag
C10_Witness ==
    \E id \in ScanIds :
        /\ startpc[id] = "returned" /\ tpc[id] = "jk_cancel" /\ phase_idx[id] = 0
        /\ lastCtl[id] = "none" /\ InFlight("pause", id)
        /\ pause_sender[id] /\ Present(id) /\ id \in controllers

\* C11: the controllers map holds an entry for a scan id exactly while the
\* spawned task of that scan has started and not terminated: it is there
\* from the return of start_scan on, through every pause_scan, resume_scan,
\* cancel_scan and clear_scan, and it is gone once the task has ended,
\* after the Ok arm and after the Err arm alike.
C11_ControllerLifetime ==
    \A id \in ScanIds : (id \in controllers) <=> Running(id)

\* C11 witness: the closure returned Err, the task has ended and removed its
\* controller, and pause_scan and clear_scan had returned before that
C11_Witness ==
    \E id \in ScanIds :
        /\ Terminated(id) /\ outcome[id] = "err" /\ id \notin controllers
        /\ lastCtl[id] = "pause" /\ cleared[id]

\* C15: the result store entry of a scan id is written only by the Ok arm
\* of that scan's task, whose closure returned Ok, and that arm runs once;
\* an entry that is present is never given another value (clear_scan can
\* only remove it), and no entry appears before the closure has returned Ok.
C15_ResultWrittenOnce ==
    /\ [](\A id \in ScanIds :
            GetResult(id).present
              => outcome[id] = "ok" /\ tpc[id] \in {"t_cleanup", "t_cleanup_q", "done"})
    /\ [][\A id \in ScanIds :
            /\ GetResult(id).present
                  => GetResult(id)' \in {GetResult(id), NoResult}
            /\ (~GetResult(id).present /\ GetResult(id)'.present)
                  => /\ tpc[id] = "t_ok" /\ tpc'[id] = "t_cleanup"
                     /\ GetResult(id)'.files = retval[id]]_vars

\* C15 witness: the task stored a result of two files and ended, and a
\* cancel_scan returned after that with the result still in place
C15_Witness ==
    \E id \in ScanIds :
        /\ Terminated(id) /\ GetResult(id).present /\ GetResult(id).files = 2
        /\ lastCtl[id] = "cancel" /\ ~cancelObserved[id]

\* a pause_scan / resume_scan call on id takes one of its two steps
CallStep(op, id) == InFlight(op, id) # InFlight(op, id)'

\* the scan is paused: its task runs, the pause flag is set and the stored
\* status is Paused
AlreadyPaused(id) ==
    Running(id) /\ pause_sender[id] /\ StatusOf(id) = "Paused"

\* the scan runs and is not paused: the closure has not returned, neither
\* flag is set, the stored status is not Paused, and no pause_scan,
\* resume_scan or cancel_scan has returned or is in flight besides the call
RunningNotPaused(id) ==
    /\ Running(id) /\ outcome[id] = "none"
    /\ ~pause_sender[id] /\ ~cancel_sender[id]
    /\ Present(id) /\ StatusOf(id) # "Paused"
    /\ lastCtl[id] = "none"
    /\ inflight \subseteq {[op |-> "resume", id |-> id]}

\* C14: pause_scan on a scan that is already paused, and resume_scan on a
\* scan that is running and not paused, change neither the pause flag nor
\* the cancel flag nor the stored progress entry.
C14_RepeatedControlNoOp ==
    [][\A id \in ScanIds :
          ( \/ AlreadyPaused(id) /\ CallStep("pause", id)
            \/ RunningNotPaused(id) /\ CallStep("resume", id) )
          => /\ pause_sender'[id] = pause_sender[id]
             /\ cancel_sender'[id] = cancel_sender[id]
             /\ GetProgress(id)' = GetProgress(id)]_vars

EntriesOf(id) ==
    << progress_store[id], result_store[id], pause_sender[id], cancel_sender[id] >>

\* C12: with two scans under distinct ids, every manager call on one scan
\* (start, pause, resume, cancel, clear) and every step of its task and its
\* walker leaves the other scan's progress entry, result entry, pause flag
\* and cancel flag unchanged.
C12_OtherScanUntouched ==
    [][\A a \in ScanIds : \A b \in ScanIds \ {a} :
          StepsOf(a) => EntriesOf(b)' = EntriesOf(b)]_vars

\* C12 witness: scan s1 was paused, cancelled and cleared and its task has
\* ended, next to the paused scan s2 whose entries are as they were
C12_Witness ==
    /\ ScanIsIn("s2", PausedLargeScan)
    /\ Terminated("s1") /\ cancelObserved["s1"] /\ cleared["s1"]
    /\ cancel_sender["s1"] /\ ~pause_sender["s1"]

\* find_duplicates has returned its groups
Returned == dpc = "done"
Members(g) == {g.files[i].path : i \in DOMAIN g.files}
Originals(g) == {g.files[i].path : i \in {k \in DOMAIN g.files : g.files[k].is_original}}

\* p is modified no later than q, and comes first in the traversal when
\* both have the same modification time
EarlierThan(p, q) ==
    \/ disk[p].mtime < disk[q].mtime
    \/ disk[p].mtime = disk[q].mtime /\ p <= q

\* C16: in every group find_duplicates returns, exactly one member has
\* is_original = true, and it is the member with the earliest
\* modified_time, the first of them in traversal order on a tie.
C16_OneEarliestOriginal ==
    Returned =>
        \A i \in DOMAIN groups :
            \E p \in Members(groups[i]) :
                /\ Originals(groups[i]) = {p}
                /\ \A q \in Members(groups[i]) : EarlierThan(p, q)

\* the files scan_files let through and whose reads all succeed
Scanned(p) == ~should_skip(disk[p])
SameContent(p, q) ==
    disk[p].size = disk[q].size /\ disk[p].content = disk[q].content

\* C17: any two files find_duplicates places in one group have the same
\* size and the same content, hence the same full hash; files of equal
\* size whose contents differ, be it only after the first 64 KiB, are never
\* in one group.
C17_NoFalsePositives ==
    Returned =>
        \A i \in DOMAIN groups :
            /\ \A p, q \in Members(groups[i]) : SameContent(p, q)
            /\ \A p \in Members(groups[i]) :
                  groups[i].size = disk[p].size /\ groups[i].hash = FullHash(disk[p])

\* C17 witness: three files of one size with the same first 64 KiB were
\* fully hashed; the two with equal content form the one group and the
\* third, which differs after the first 64 KiB, is in none
C17_Witness ==
    /\ Returned /\ Len(groups) = 1 /\ Members(groups[1]) = {1, 3}
    /\ Len(disk) = 3 /\ disk[2].size = disk[1].size
    /\ PartialHash(disk[2]) = PartialHash(disk[1])
    /\ disk[2].content # disk[1].content
    /\ \E k \in DOMAIN hlog : hlog[k].hash = "full" /\ hlog[k].files = {1, 2, 3}

C19_WastedSpace ==
    Returned =>
        /\ \A i \in DOMAIN groups :
              /\ Len(groups[i].files) >= 2
              /\ Cardinality(Members(groups[i])) = Len(groups[i].files)
              /\ groups[i].wasted_space = groups[i].size * (Len(groups[i].files) - 1)
        /\ result.wasted_space = sum([i \in DOMAIN groups |-> groups[i].wasted_space])
        /\ result.total_groups = Len(groups)

\* C19 witness: of three identical files of size 2 one could not be read to
\* its end; the other two form a group with wasted_space 2, which is the
\* result's wasted_space
C19_Witness ==
    /\ Returned /\ Len(disk) = 3 /\ disk[2].fail = "read"
    /\ Len(groups) = 1 /\ Members(groups[1]) = {1, 3}
    /\ groups[1].size = 2 /\ groups[1].wasted_space = 2 /\ result.wasted_space = 2

\* the directory a spelling of it denotes
Canonical(d) == IF d = "c:/program files" THEN "C:/Program Files" ELSE d
UnderProtectedPath(f) == Canonical(f.dir) \in ProtectedPaths

\* C20: no file whose size is below min_size or above max_size, and no file
\* under a protected system path, is a member of a returned group.
C20_FilteredBeforeBucketing ==
    Returned =>
        \A i \in DOMAIN groups : \A p \in Members(groups[i]) :
            /\ disk[p].size >= options.min_size
            /\ options.max_size.some => disk[p].size <= options.max_size.v
            /\ ~UnderProtectedPath(disk[p])

\* the members of the group marked is_original
OriginalMembers == {i \in DOMAIN sgroup : sgroup[i].is_original}
Suggested == {suggestion[k] : k \in DOMAIN suggestion}

\* C21: for a group of at least two files of which exactly one is marked
\* is_original, suggest_files_to_delete does not return the path of that
\* file, wherever the other files lie.
C21_OriginalNeverSuggested ==
    (spc = "done" /\ Len(sgroup) >= 2 /\ Cardinality(OriginalMembers) = 1)
        => Suggested \cap OriginalMembers = {}

\* the files of the tree for which some read fails during the run
Failing == {p \in Paths : disk[p].fail # "none"}
Grouped == UNION {Members(groups[i]) : i \in DOMAIN groups}

\* C22: find_duplicates returns although reads of single files fail; a
\* file for which a metadata read, the partial hash or the full hash fails
\* is a member of no group, and the other files are grouped as without it:
\* two of them are in one group exactly when they pass the scan filter and
\* have the same size and content.
C22_FailingFileInNoGroup ==
    Returned =>
        /\ Failing \cap Grouped = {}
        /\ \A p, q \in Paths \ Failing :
              (p # q /\ Scanned(p) /\ Scanned(q) /\ SameContent(p, q))
                <=> (p # q /\ \E i \in DOMAIN groups : {p, q} \subseteq Members(groups[i]))

\* the steps of the run logged so far: which hash was computed for which
\* files
Log(k) == hlog[k]
Bucketed == UNION {{size_groups[sz][i] : i \in DOMAIN size_groups[sz]} : sz \in DOMAIN size_groups}

\* C23 as stated: every partial-hash computation of the run precedes every
\* full-hash computation.
C23_PhasesStrictlyOrdered ==
    \A i, j \in DOMAIN hlog :
        (Log(i).hash = "full" /\ Log(j).hash = "partial") => j < i

\* C23 amended: hashing starts only when size bucketing is complete and
\* hashes only bucketed files, and the full hashes of the files of a size
\* bucket are computed after all the partial hashes of that bucket, which
\* directly precede them.
C23_OrderedPerSizeGroup ==
    /\ hlog # << >> => (dpc \notin {"scan", "size"} /\ pending \subseteq DOMAIN size_groups)
    /\ \A k \in DOMAIN hlog :
          /\ Log(k).files \subseteq Bucketed
          /\ Log(k).hash = "full" =>
                /\ k > 1 /\ Log(k - 1).hash = "partial"
                /\ Log(k).files \subseteq Log(k - 1).files

\* C23 witness: two size buckets of two identical files each were hashed,
\* the partial hashes of the second bucket after the full hashes of the
\* first
C23_Witness ==
    /\ Returned /\ Len(hlog) = 4
    /\ Log(1).hash = "partial" /\ Log(2).hash = "full"
    /\ Log(3).hash = "partial" /\ Log(4).hash = "full"
    /\ Log(2).files \cap Log(3).files = {}

\* C24: the full hash of a file is computed only if another file of the
\* same size, whose partial hash was computed, has the same partial hash.
C24_FullHashOnlyOnPartialMatch ==
    \A k \in DOMAIN hlog :
        Log(k).hash = "full" =>
            \A p \in Log(k).files :
                \E q \in Log(k).files \ {p} :
                    /\ disk[q].size = disk[p].size
                    /\ PartialOk(disk[p]) /\ PartialOk(disk[q])
                    /\ PartialHash(disk[q]) = PartialHash(disk[p])

\* C24 witness: of three files of one size, the two that agree on the
\* first 64 KiB were fully hashed and the third was not
C24_Witness ==
    /\ Returned /\ Len(disk) = 3 /\ Len(hlog) = 2
    /\ Log(1).files = {1, 2, 3} /\ Log(2).hash = "full" /\ Log(2).files = {1, 3}
    /\ PartialHash(disk[2]) # PartialHash(disk[1])

\* C25: the returned groups are in descending order of wasted_space.
C25_SortedByWastedSpace ==
    Returned =>
        \A i, j \in DOMAIN groups :
            i < j => groups[i].wasted_space >= groups[j].wasted_space

\* C25 witness: two groups of two files came back, the group of the files
\* of size 2 before the group of the files of size 1
C25_Witness ==
    /\ Returned /\ Len(groups) = 2
    /\ groups[1].wasted_space = 2 /\ groups[2].wasted_space = 1

\* the entries of the cache, whatever their order of use
Entries(c) == {c[i] : i \in DOMAIN c}
EntryOf(c, path) == c[peek(c, path)]

\* a call returns the cached hash: the step of an idle calculator that
\* sets the return value to a cached hash
ReturnsCached == hpc = "idle" /\ hret'.kind = "cached" /\ hret' # hret

\* C26: calculate_file_hash returns the cached hash of a path only when
\* the cached modified time and size equal those of the file as it is at
\* the call; a call that finds no such entry reads the file, and when it
\* ends the entry of the path is the hash of what it read with the modified
\* time and size it found at its start, whatever was written to the file
\* in between.
C26_CachedOnlyWhenUnchanged ==
    [][
        /\ ReturnsCached =>
              \E path \in HPaths :
                  /\ peek(cache, path) # 0
                  /\ EntryOf(cache, path).modified_time = hfiles[path].mtime
                  /\ EntryOf(cache, path).file_size = Len(hfiles[path].data)
                  /\ EntryOf(cache, path).hash = hret'.hash
        /\ (hpc = "read" /\ hret'.kind = "hash" /\ cache_enabled) =>
              /\ cache'[1] = [path |-> hcall.path, hash |-> hret'.hash,
                              modified_time |-> hcall.modified_time,
                              file_size |-> hcall.file_size]
              /\ \A i \in DOMAIN cache' : i > 1 => cache'[i].path # hcall.path
    ]_vars

\* C26 witness: the file of a cached path was written, and a call for it
\* that found the cached modified time different is reading the file anew
C26_Witness ==
    /\ hpc = "read" /\ hcall.path = "p1" /\ hasher # << >>
    /\ peek(cache, "p1") # 0
    /\ EntryOf(cache, "p1").modified_time # hcall.modified_time
    /\ EntryOf(cache, "p1").file_size = hcall.file_size

\* C29: a call that runs out of time or whose read fails returns an error
\* and no hash, and no step of a call other than its successful end adds,
\* removes or changes a cache entry.
C29_FailedCallKeepsCache ==
    [][
        /\ ((hpc = "read" \/ hpc' = "read") /\ hret'.kind # "hash")
              => Entries(cache') = Entries(cache)
        /\ (hpc = "read" /\ hpc' = "idle" /\ hret'.kind # "hash")
              => (hret'.kind \in {"io", "timeout"} /\ hret'.hash = << >> /\ cache' = cache)
    ]_vars

\* C29 witness: a call for a path whose cached entry is out of date timed
\* out, and the entry is still there
C29_Witness ==
    /\ hpc = "idle" /\ hret.kind = "timeout" /\ Len(cache) = 1
    /\ cache[1].modified_time # hfiles[cache[1].path].mtime

\* the capacity the constructor is to give: DEFAULT_CACHE_SIZE, or
\* max(1, n) for with_cache_and_size(_, n)
Capacity ==
    IF ctor.fn # "with_cache_and_size" THEN 1000
    ELSE IF ctor.max_size >= 1 THEN ctor.max_size ELSE 1

\* C30: the cache never holds more entries than its capacity, nor two
\* entries for one path; with caching disabled it stays empty and no call
\* returns a cached hash.
C30_CacheBounded ==
    /\ Len(cache) <= Capacity
    /\ \A i, j \in DOMAIN cache : cache[i].path = cache[j].path => i = j
    /\ ~ctor.enabled => (cache = << >> /\ hret.kind # "cached")

\* C30 witness: a calculator made by with_cache_and_size(true, 0) hashed
\* both files and holds one entry, that of the file hashed last
C30_Witness ==
    /\ ctor = [fn |-> "with_cache_and_size", enabled |-> TRUE, max_size |-> 0]
    /\ Len(cache) = 1 /\ cache[1].path = "p2" /\ hret.kind = "hash"
    /\ cache[1].hash = hret.hash

\* the hashes of the given kind computed by the call
Computed(which) == {k \in DOMAIN clog : clog[k].hash = which}

\* C27: the partial hash depends on the first 64 KiB of the file only: two
\* partial hashes of files with the same first 64 KiB are equal, however
\* many bytes the read call returned.
C27_PartialHashOfFirstBlock ==
    \A i, j \in Computed("partial") :
        cfiles[clog[i].file].head = cfiles[clog[j].file].head
            => clog[i].value = clog[j].value

\* C28: a quick_compare that returned gave true exactly when both files
\* were read without error and have the same size and the same content; it
\* computed no full hash when the sizes or the partial hashes differ; and
\* the detector's quick_compare gave false when a read of either file
\* fails.
C28_QuickCompare ==
    cpc = "done" =>
        /\ cret = "true" <=>
              /\ cfiles[1].fail = "none" /\ cfiles[2].fail = "none"
              /\ len(cfiles[1]) = len(cfiles[2])
              /\ full_hash(cfiles[1]) = full_hash(cfiles[2])
        /\ len(cfiles[1]) # len(cfiles[2]) => Computed("full") = {}
        /\ (\E i, j \in Computed("partial") : clog[i].value # clog[j].value)
              => Computed("full") = {}
        /\ (centry = "detector" /\ \E i \in 1..2 : cfiles[i].fail # "none")
              => cret = "false"

\* the traversal has returned
Walked == wresult # "none"
Yielded(e) == \E k \in DOMAIN yielded : yielded[k] = e

\* C31: should_include gives a directory entry the same answer under every
\* include_hidden and include_system and whether the directory is hidden
\* or not; so when include_hidden is false, a traversal through FileWalker
\* yields the non-hidden file f that lies in the hidden directory d.
C31_DirectoriesByPathOnly ==
    /\ \A n \in {"r", "d"}, w \in Walkers, h \in SUBSET {"d", "f", "g"} :
          should_include(w, [tree EXCEPT !.hidden = h], Entry(n, FALSE))
            = should_include(walker, tree, Entry(n, FALSE))
    /\ ( /\ Walked /\ walker.scan = "large" /\ ~walker.include_hidden
         /\ "d" \in tree.hidden /\ "d" \notin tree.excluded /\ tree.fails # "d"
         /\ ~HiddenOrSystem(walker, tree, Entry("f", FALSE)) )
          => Yielded(Entry("f", FALSE))

\* C31 witness: with include_hidden false, the traversal of a tree whose
\* directory d is hidden has returned, having yielded d and the file f in it
C31_Witness ==
    /\ Walked /\ walker.scan = "large" /\ ~walker.include_hidden
    /\ tree.hidden = {"d"} /\ Yielded(Entry("d", FALSE)) /\ Yielded(Entry("f", FALSE))

\* C32: a traversal that does not follow links ends; it yields no entry
\* twice and no entry reached through the link, also when the link leads to
\* a directory it lies in.
C32_LinksNotFollowed ==
    /\ [](~walker.follow_links =>
            /\ \A i, j \in DOMAIN yielded :
                  (~yielded[i].err /\ ~yielded[j].err /\ yielded[i].node = yielded[j].node)
                    => i = j
            /\ \A i \in DOMAIN yielded : ~yielded[i].via)
    /\ <>Walked

\* C32 witness: the traversal of a tree whose link in d leads back to the
\* root has returned; the link was yielded and the file g once
C32_Witness ==
    /\ Walked /\ ~walker.follow_links /\ tree.lparent = "d" /\ tree.ltarget = "r"
    /\ tree.fails = "none"
    /\ Yielded(Entry("l", FALSE)) /\ Yielded(Entry("g", FALSE))

\* the files the scan is to report: those the filter lets through, in
\* directories it lets through
Passes(n) ==
    IF walker.scan = "large"
    THEN /\ ~Excluded(tree, Entry(n, FALSE))
         /\ ~HiddenOrSystem(walker, tree, Entry(n, FALSE))
    ELSE /\ ~(~walker.include_hidden /\ n \in tree.hidden)
         /\ n = "f" => ~(~walker.include_hidden /\ "d" \in tree.hidden)

\* the entries an error at d keeps from being read
Lost == IF tree.fails = "d" THEN {"f", "l"} ELSE {tree.fails}

C34_BatchNeverFails ==
    /\ kpc \in {"loop", "result", "done"} =>
          /\ kctx.cleaned_files + kctx.failed_files = kidx
          /\ kctx.failed_files = Len(kctx.errors)
          /\ kctx.cleaned_files = Cardinality(kdeleted)
          /\ kctx.total_files = Len(klist)
    /\ kpc \in {"result", "done"} =>
          /\ kctx.cleaned_files + kctx.failed_files <= kctx.total_files
          /\ ~kcancelled => kctx.cleaned_files + kctx.failed_files = kctx.total_files
          /\ klist = << >> => (kctx.cleaned_files = 0 /\ kctx.total_files = 0)

\* C34 witness: clean was given a missing path and a deletable file and
\* returned with one file failed and one cleaned
C34_Witness ==
    /\ kentry = "clean" /\ kpc = "done" /\ klist = << "a", "b" >>
    /\ kctx.failed_files = 1 /\ kctx.errors = << "a" >> /\ kctx.cleaned_files = 1
    /\ kdeleted = {"b"}

\* C40: delete_selected_files takes a path out of the stored scan result
\* and the stored full category list only if its file was deleted by the
\* call.
C40_OnlyDeletedFilesRemoved ==
    [][ /\ (kstored.result \ kstored'.result) \subseteq kdeleted
        /\ (kstored.full \ kstored'.full) \subseteq kdeleted ]_vars

\* C39: when only update_progress touches the counter, of any uinterval
\* consecutive calls at most one applies update_fn and emits the event.
C39_Throttled ==
    ~utouched =>
        \A i, j \in DOMAIN ulog :
            (i < j /\ j - i < uinterval) => ~(ulog[i] = "update" /\ ulog[j] = "update")

\* C35: once resume_scan has returned for a scan whose task still runs and
\* check_control has returned Continue, no pause_scan having been issued
\* since, the stored status is not Paused.
C35_ResumedNotPaused ==
    \A id \in ScanIds :
        ( /\ tpc[id] = "lf_read"
          /\ lastCtl[id] = "resume"
          /\ [op |-> "pause", id |-> id] \notin inflight
          /\ progress_store[id] # NotFound )
        => progress_store[id].status # "Paused"

\* C36: the cancel flag of a scan, once set, stays set; a check_control
\* that reads the cancel channel while the flag is set, on entry or after
\* a sleep of the pause loop, returns Cancel, whatever the pause flag; and
\* check_control returns Continue only on reading the pause flag false.
C36_CancelMonotoneAndFirst ==
    [][\A id \in ScanIds :
          /\ cancel_sender[id] => cancel_sender'[id]
          /\ ( /\ cancel_sender[id]
               /\ tpc[id] \in {"cc_cancel", "cc_recheck", "jk_cancel", "jk_recheck"}
               /\ tpc'[id] # tpc[id] )
             => (cancelObserved'[id] /\ tpc'[id] \in {"lf_join", "t_ok"})
          /\ ( /\ tpc[id] \in {"cc_while", "jk_while"}
               /\ tpc'[id] \in {"lf_read", "jk_scan"} )
             => ~pause_sender[id]
    ]_vars

\* C36 witness: cancel_scan returned, resume_scan returned after it, the
\* flag is still set and the task has left its loop on reading it
C36_Witness ==
    \E id \in ScanIds :
        /\ cancel_sender[id] /\ lastCtl[id] = "resume"
        /\ [op |-> "cancel", id |-> id] \notin inflight
        /\ cancelObserved[id] /\ ~pause_sender[id]

\* C37: when a poll of the progress has shown Completed, a poll of the
\* result made afterwards returns the result unless a clear has begun.
C37_ResultBeforeCompleted ==
    (gseen /\ ggot = "None") => gclear # "idle"

\* C38: after the second start_scan_with_id with an id has returned, the
\* controller it registered stays under the id until the task it spawned
\* removes it.
C38_LaterControllerKept ==
    (rstartpc = "returned" /\ rtpc[2] \in {"run", "ok", "err", "cleanup"}) => rctl = 2

====
